---- MODULE Spec2Model ----
(***************************************************************************)
(* Model of the tabular export of graphboarder:                            *)
(* findExportableRows (src/lib/utils/resultExport.ts), a breadth-first     *)
(* search for the best array of object rows in a result payload, and       *)
(* convertArrayToCSVWithMetadata, the conversion of rows to CSV text.      *)
(*                                                                         *)
(* Strings are sequences of one-character strings, so that toLowerCase,    *)
(* includes and the path template `${path}.${key}` are computed.           *)
(***************************************************************************)
EXTENDS Integers, Sequences, FiniteSets, TLC

(***************************************************************************)
(* Bounds of the model.                                                    *)
(***************************************************************************)
\* Nodes of a payload reachable through object keys (the root included).
MaxNodes == 4
\* Calls of findExportableRows before the call whose result is observed.
MaxEarlierCalls == 1
\* Rows of the array that is converted to CSV.
MaxDataRows == 2
\* Characters of a file name of more than one character.
MaxNameLength == 2
\* Toasts added, the largest timeout given, and the milliseconds that pass
\* one at a time.
MaxToasts == 2
MaxTimeout == 2
MaxClock == 2
\* Calls of debug, info, warn and error between two clear(), and the
\* largest maxLogs that setMaxLogs is called with.
MaxLogCalls == 3
MaxCap == 2

(***************************************************************************)
(* Program constants.                                                      *)
(***************************************************************************)
\* maxDepth ?? 6
DefaultMaxDepth == 6
\* minRows ?? 0
DefaultMinRows == 0
\* Number.MAX_SAFE_INTEGER (2^53 - 1) exceeds the model checker's integers;
\* it is only ever compared with candidateCount, which is at most MaxNodes.
MAX_SAFE_INTEGER == 2147483647

(***************************************************************************)
(* Strings.                                                                *)
(***************************************************************************)
\* String.prototype.toLowerCase on one character of the model's alphabet.
LowerChar(c) ==
    CASE c = "A" -> "a"
      [] c = "B" -> "b"
      [] c = "E" -> "e"
      [] c = "I" -> "i"
      [] c = "M" -> "m"
      [] c = "S" -> "s"
      [] c = "T" -> "t"
      [] OTHER -> c

toLowerCase(s) == [i \in 1..Len(s) |-> LowerChar(s[i])]

\* String.prototype.includes: needle occurs in hay as a contiguous substring.
includes(hay, needle) ==
    \E i \in 0..(Len(hay) - Len(needle)) :
        SubSeq(hay, i + 1, i + Len(needle)) = needle

\* The literal 'root' of the first queue entry.
RootPath == <<"r", "o", "o", "t">>

\* The template literal `${path}.${key}`.
ChildPath(path, key) == path \o <<".">> \o key

(***************************************************************************)
(* Values of a payload.  Every value is a record of one shape:             *)
(*   kind    "null" (null or undefined), "scalar", "object" or "array";    *)
(*   entries Object.entries of an object: <<[key, value], ...>>;           *)
(*   elems   the elements of an array.                                     *)
(***************************************************************************)
NullV == [kind |-> "null", entries |-> <<>>, elems |-> <<>>]
ScalarV == [kind |-> "scalar", entries |-> <<>>, elems |-> <<>>]
ObjectV(es) == [kind |-> "object", entries |-> es, elems |-> <<>>]
ArrayV(xs) == [kind |-> "array", entries |-> <<>>, elems |-> xs]

isArray(value) == value.kind = "array"

\* typeof value === 'object' && value !== null && !Array.isArray(value)
isPlainObject(value) == value.kind = "object"

\* Object.keys(item).length
KeyCount(item) == Len(item.entries)

\* const hasObjectEntries = (list, allowEmptyObjectRows) => ...
hasObjectEntries(list, allowEmptyObjectRows) ==
    IF allowEmptyObjectRows
    THEN \E i \in 1..Len(list) : isPlainObject(list[i])
    ELSE \E i \in 1..Len(list) : isPlainObject(list[i]) /\ KeyCount(list[i]) > 0

\* IsRow without the test of the keys: every plain object is a row.
IsRowAnyObject(item, allowEmptyObjectRows) == isPlainObject(item)

\* The predicate of value.filter(...) in findExportableRows.
IsRow(item, allowEmptyObjectRows) ==
    IF ~isPlainObject(item) THEN FALSE
    ELSE IF allowEmptyObjectRows THEN TRUE
    ELSE KeyCount(item) > 0

\* const rows = value.filter((item) => ...)
FilterRows(list, allowEmptyObjectRows) ==
    LET keep(item) == IsRow(item, allowEmptyObjectRows)
    IN  SelectSeq(list, keep)

\* preferredPathTokens.reduce((score, token) => ..., 0) over tokens[i..]
RECURSIVE ReduceTokens(_, _, _, _)
ReduceTokens(lowerPath, tokens, i, score) ==
    IF i > Len(tokens) THEN score
    ELSE ReduceTokens(lowerPath, tokens, i + 1,
            IF includes(lowerPath, toLowerCase(tokens[i])) THEN score + 2 ELSE score)

scorePath(path, preferredPathTokens) ==
    ReduceTokens(toLowerCase(path), preferredPathTokens, 1, 0)

\* containsRequiredTokens with some for every: one token is enough.
containsSomeRequiredToken(path, requiredTokens) ==
    IF Len(requiredTokens) = 0 THEN TRUE
    ELSE \E i \in 1..Len(requiredTokens) :
            includes(toLowerCase(path), toLowerCase(requiredTokens[i]))

containsRequiredTokens(path, requiredTokens) ==
    IF Len(requiredTokens) = 0 THEN TRUE
    ELSE \A i \in 1..Len(requiredTokens) :
            includes(toLowerCase(path), toLowerCase(requiredTokens[i]))

\* containsExcludedTokens without path.toLowerCase().
containsExcludedTokensCaseSensitive(path, excludedTokens) ==
    \E i \in 1..Len(excludedTokens) :
        includes(path, toLowerCase(excludedTokens[i]))

containsExcludedTokens(path, excludedTokens) ==
    \E i \in 1..Len(excludedTokens) :
        includes(toLowerCase(path), toLowerCase(excludedTokens[i]))

Min(a, b) == IF a < b THEN a ELSE b
Max(a, b) == IF a > b THEN a ELSE b

\* scoreCandidate without the tokenScore.
scoreCandidateWithoutTokens(path, depth, rows, opts) ==
    LET rowScore == IF opts.preferLargeDatasets
                    THEN Min(Len(rows) * 2, 40)
                    ELSE Min(Len(rows), 20)
        depthScore == IF opts.preferShallow
                      THEN Max(0, 20 - depth * 5)
                      ELSE Max(0, 5 - (depth \div 2))
    IN  rowScore + depthScore

scoreCandidate(path, depth, rows, opts) ==
    LET rowScore == IF opts.preferLargeDatasets
                    THEN Min(Len(rows) * 2, 40)
                    ELSE Min(Len(rows), 20)
        depthScore == IF opts.preferShallow
                      THEN Max(0, 20 - depth * 5)
                      ELSE Max(0, 5 - (depth \div 2))
        tokenScore == scorePath(path, opts.preferredPathTokens)
    IN  rowScore + depthScore + tokenScore

(***************************************************************************)
(* Options.  The second argument of findExportableRows is a number (the    *)
(* legacy call form) or an options object.  An options object is a record  *)
(* of its properties plus `given`, the names of the properties it has; the *)
(* value of a property that is not given is never read.                    *)
(***************************************************************************)
S_items == <<"i", "t", "e", "m", "s">>
S_nodes == <<"n", "o", "d", "e", "s">>
S_results == <<"r", "e", "s", "u", "l", "t", "s">>
S_edges == <<"e", "d", "g", "e", "s">>
S_meta == <<"m", "e", "t", "a">>
S_error == <<"e", "r", "r", "o", "r">>

DefaultPreferredPathTokens == <<S_items, S_nodes, S_results, S_edges>>
DefaultExcludedPathTokens == <<S_meta, S_error>>

\* The options object {}.
NoOptions ==
    [given |-> {},
     maxDepth |-> 0, minRows |-> 0,
     preferredPathTokens |-> <<>>, excludedPathTokens |-> <<>>,
     requirePathTokens |-> <<>>,
     preferShallow |-> TRUE, preferLargeDatasets |-> TRUE,
     allowEmptyObjectRows |-> FALSE,
     maxCandidates |-> 0, maxInspectedNodes |-> 0,
     minObjectKeys |-> 0, minObjectRatio |-> <<0, 1>>]

\* normalizedOptions that drops the number of the legacy call form.
normalizedOptionsWithoutNumber(opts) ==
    IF opts.isNumber THEN NoOptions ELSE opts.object

\* typeof options === 'number' ? { maxDepth: options } : options
normalizedOptions(opts) ==
    IF opts.isNumber
    THEN [NoOptions EXCEPT !.given = {"maxDepth"}, !.maxDepth = opts.number]
    ELSE opts.object

\* normalizedOptions.<name> ?? <default>
Coalesce(obj, name, default) == IF name \in obj.given THEN obj[name] ELSE default

\* const searchOptions: Required<ExportSearchOptions> = { ... }
searchOptions(opts) ==
    LET n == normalizedOptions(opts)
    IN  [maxDepth |-> Coalesce(n, "maxDepth", DefaultMaxDepth),
         minRows |-> Coalesce(n, "minRows", DefaultMinRows),
         preferredPathTokens |->
             Coalesce(n, "preferredPathTokens", DefaultPreferredPathTokens),
         excludedPathTokens |->
             Coalesce(n, "excludedPathTokens", DefaultExcludedPathTokens),
         requirePathTokens |-> Coalesce(n, "requirePathTokens", <<>>),
         preferShallow |-> Coalesce(n, "preferShallow", TRUE),
         preferLargeDatasets |-> Coalesce(n, "preferLargeDatasets", TRUE),
         allowEmptyObjectRows |-> Coalesce(n, "allowEmptyObjectRows", FALSE),
         maxCandidates |-> Coalesce(n, "maxCandidates", MAX_SAFE_INTEGER)]

(***************************************************************************)
(* The loop of findExportableRows.  A queue entry (node) is a record       *)
(* [value, path, depth]; so is the searchOptions record.                   *)
(***************************************************************************)
\* ExportableRows | null is a sequence of at most one ExportableRows.
Null == <<>>
Some(c) == <<c>>

\* TooDeep one level late.
TooDeepOffByOne(node, so) == node.depth > so.maxDepth + 1

\* if (depth > searchOptions.maxDepth)
TooDeep(node, so) == node.depth > so.maxDepth

\* if (containsExcludedTokens(path, searchOptions.excludedPathTokens))
Excluded(node, so) == containsExcludedTokens(node.path, so.excludedPathTokens)

\* if (!containsRequiredTokens(path, searchOptions.requirePathTokens))
MissingRequired(node, so) ==
    ~containsRequiredTokens(node.path, so.requirePathTokens)

\* if (value.length === 0)
IsEmptyArray(node) == Len(node.value.elems) = 0

\* AcceptsEmpty without !bestCandidate.
AcceptsEmptyOverBest(best, so) == so.minRows = 0

\* if (searchOptions.minRows === 0 && !bestCandidate)
AcceptsEmpty(best, so) == so.minRows = 0 /\ best = Null

\* if (!hasObjectEntries(value, searchOptions.allowEmptyObjectRows))
NoObjectEntries(node, so) ==
    ~hasObjectEntries(node.value.elems, so.allowEmptyObjectRows)

RowsOf(node, so) == FilterRows(node.value.elems, so.allowEmptyObjectRows)

\* TooFewRows one row short.
TooFewRowsOffByOne(node, so) == Len(RowsOf(node, so)) < so.minRows - 1

\* if (rows.length < searchOptions.minRows)
TooFewRows(node, so) == Len(RowsOf(node, so)) < so.minRows

\* AtMaxCandidates with > for >=.
AtMaxCandidatesOffByOne(cc, so) == cc > so.maxCandidates

\* if (candidateCount >= searchOptions.maxCandidates)
AtMaxCandidates(cc, so) == cc >= so.maxCandidates

\* Beats with >= for >: a later array of equal score replaces the best.
BeatsOrTies(score, best) == best = Null \/ score >= best[1].score

\* if (!bestCandidate || score > bestCandidate.score)
Beats(score, best) == best = Null \/ score > best[1].score

\* bestCandidate = { rows: [], path, depth, score: 0, candidateCount, ... }
EmptyCandidate(node, cc, ic) ==
    [rows |-> <<>>,
     path |-> node.path,
     depth |-> node.depth,
     score |-> 0,
     candidateCount |-> cc,
     inspectedNodeCount |-> ic]

\* ScoredCandidate with the two counters as they were before this pass.
ScoredCandidateBeforeCounting(node, so, cc, ic) ==
    [rows |-> RowsOf(node, so),
     path |-> node.path,
     depth |-> node.depth,
     score |-> scoreCandidate(node.path, node.depth, RowsOf(node, so), so),
     candidateCount |-> cc - 1,
     inspectedNodeCount |-> ic - 1]

\* bestCandidate = { rows, path, depth, score, candidateCount, ... }
ScoredCandidate(node, so, cc, ic) ==
    [rows |-> RowsOf(node, so),
     path |-> node.path,
     depth |-> node.depth,
     score |-> scoreCandidate(node.path, node.depth, RowsOf(node, so), so),
     candidateCount |-> cc,
     inspectedNodeCount |-> ic]

\* Children that leaves the depth of the parent.
ChildrenAtParentDepth(node) ==
    [i \in 1..Len(node.value.entries) |->
        [value |-> node.value.entries[i].value,
         path |-> ChildPath(node.path, node.value.entries[i].key),
         depth |-> node.depth]]

\* Children that puts the object itself back behind its children.
ChildrenAndParent(node) ==
    [i \in 1..Len(node.value.entries) |->
        [value |-> node.value.entries[i].value,
         path |-> ChildPath(node.path, node.value.entries[i].key),
         depth |-> node.depth + 1]]
    \o <<node>>

\* Children that walks into an array: its first element is enqueued in its
\* place, under the index 0.
ChildrenIntoArrays(node) ==
    [i \in 1..Len(node.value.entries) |->
        LET child == node.value.entries[i].value
            path == ChildPath(node.path, node.value.entries[i].key)
        IN  IF child.kind = "array" /\ child.elems # <<>>
            THEN [value |-> child.elems[1],
                  path |-> ChildPath(path, <<"0">>),
                  depth |-> node.depth + 2]
            ELSE [value |-> child, path |-> path, depth |-> node.depth + 1]]

\* Object.entries(value).forEach(([key, child]) => queue.push(...))
Children(node) ==
    [i \in 1..Len(node.value.entries) |->
        [value |-> node.value.entries[i].value,
         path |-> ChildPath(node.path, node.value.entries[i].key),
         depth |-> node.depth + 1]]

\* The way the loop body takes for a dequeued node, after cc arrays were
\* scored: the tests of the body in the order of the code.
Branch(node, cc, so) ==
    IF TooDeep(node, so) THEN "tooDeep"
    ELSE IF Excluded(node, so) THEN "excluded"
    ELSE IF isArray(node.value) THEN
        IF MissingRequired(node, so) THEN "missingRequired"
        ELSE IF IsEmptyArray(node) THEN "emptyArray"
        ELSE IF NoObjectEntries(node, so) THEN "noObjectEntries"
        ELSE IF TooFewRows(node, so) THEN "tooFewRows"
        ELSE IF AtMaxCandidates(cc, so) THEN "break"
        ELSE "scored"
    ELSE IF isPlainObject(node.value) THEN "object"
    ELSE "other"

\* One pass through the loop body.  s is the record of the loop's variables
\* [queue, bestCandidate, candidateCount, inspectedNodeCount, brk], brk
\* saying that the loop was left by break.
LoopBody(s, so) ==
    LET node == Head(s.queue)
        ic == s.inspectedNodeCount + 1
        way == Branch(node, s.candidateCount, so)
        shifted == [s EXCEPT !.queue = Tail(s.queue), !.inspectedNodeCount = ic]
    IN  CASE way = "emptyArray" ->
                [shifted EXCEPT !.bestCandidate =
                    IF AcceptsEmpty(s.bestCandidate, so)
                    THEN Some(EmptyCandidate(node, s.candidateCount, ic))
                    ELSE @]
          [] way = "break" -> [shifted EXCEPT !.brk = TRUE]
          [] way = "scored" ->
                LET cc == s.candidateCount + 1
                    found == ScoredCandidate(node, so, cc, ic)
                IN  [shifted EXCEPT
                        !.candidateCount = cc,
                        !.bestCandidate =
                            IF Beats(found.score, s.bestCandidate)
                            THEN Some(found)
                            ELSE @]
          [] way = "object" ->
                [shifted EXCEPT !.queue = Tail(s.queue) \o Children(node)]
          [] OTHER -> shifted

\* The loop's variables before the loop.
LoopStart(p) ==
    [queue |-> <<[value |-> p, path |-> RootPath, depth |-> 0]>>,
     bestCandidate |-> Null,
     candidateCount |-> 0,
     inspectedNodeCount |-> 0,
     brk |-> FALSE]

\* while (queue.length > 0) { ... }
RECURSIVE While(_, _)
While(s, so) ==
    IF s.queue = <<>> \/ s.brk THEN s
    ELSE While(LoopBody(s, so), so)

\* The value findExportableRows(p, o) returns.
findExportableRows(p, o) ==
    IF p.kind = "null" THEN Null
    ELSE While(LoopStart(p), searchOptions(o)).bestCandidate

(***************************************************************************)
(* State of one call findExportableRows(payload, options), one step of the *)
(* state machine for each pass through the loop.                           *)
(***************************************************************************)
VARIABLES
    payload,             \* the first argument
    options,             \* the second argument: [isNumber, number, object]
    pc,                  \* "start", "loop", "exit" (after break), "done";
                         \* "idle" when no discovery is called
    queue,               \* the work list of {value, path, depth}
    bestCandidate,       \* Null or Some(ExportableRows)
    candidateCount,
    inspectedNodeCount,
    result,              \* the returned value, once pc = "done"
    earlier,             \* the values the earlier calls with these arguments
                         \* returned, in the order of the calls
    data,                \* convertArrayToCSVWithMetadata: the first argument
    csvOptions,          \* its second argument: Null or Some(options object)
    csvPc,               \* "idle", "start", "rows", "done"
    flatData,
    headers,
    csvRows,
    csvResult,           \* the returned CsvConversionResult, once csvPc = "done"
    dlCall,              \* a download call: Null or Some([fn, filename,
                         \* content, document])
    dlPc,                \* "idle", "start", "trigger", "done"
    dlFile,              \* the arguments of triggerDownload: Null or
                         \* Some([content, filename, mimeType])
    downloads,           \* the files of the links that were clicked
    toasts,              \* the value of the toast store
    timers,              \* the pending setTimeout callbacks: {[id, due]}
    now,                 \* the clock, in ms
    toastCount,          \* the toasts added so far; the next one gets the
                         \* id toastCount + 1
    toastHistory,        \* for every id its timeout and creation time and
                         \* whether remove(id) or clear() were called since
    logLevel,            \* LoggerService: this.level
    logs,                \* this.logs
    maxLogs,             \* this.maxLogs
    shouldWriteToConsole,
    logCalls,            \* the calls of debug, info, warn and error since
                         \* the construction or the last clear(): the
                         \* method and whether it passed the level filter
    setMaxLogsReturned   \* the last call of setMaxLogs, its argument and
                         \* what it returned: Null or Some([arg, returned])

\* The variables of findExportableRows and those of the CSV conversion.
exportVars == <<payload, options, pc, queue, bestCandidate, candidateCount,
                inspectedNodeCount, result, earlier>>
csvVars == <<data, csvOptions, csvPc, flatData, headers, csvRows, csvResult>>
dlVars == <<dlCall, dlPc, dlFile, downloads>>
toastVars == <<toasts, timers, now, toastCount, toastHistory>>
logVars == <<logLevel, logs, maxLogs, shouldWriteToConsole, logCalls,
             setMaxLogsReturned>>

vars == <<exportVars, csvVars, dlVars, toastVars, logVars>>

\* new LoggerService(): private maxLogs = 500
DefaultMaxLogs == 500

\* No download is called.
DownloadIdle ==
    /\ dlCall = <<>>
    /\ dlPc = "idle"
    /\ dlFile = <<>>
    /\ downloads = <<>>

\* The toast store is not used.
ToastIdle ==
    /\ toasts = <<>>
    /\ timers = {}
    /\ now = 0
    /\ toastCount = 0
    /\ toastHistory = <<>>

\* The logger as it is constructed: level = LogLevel.DEBUG, logs empty,
\* maxLogs = 500, shouldWriteToConsole = true.
LoggerNew ==
    /\ logLevel = 0
    /\ logs = <<>>
    /\ maxLogs = DefaultMaxLogs
    /\ shouldWriteToConsole = TRUE
    /\ logCalls = <<>>
    /\ setMaxLogsReturned = <<>>

\* The searchOptions of this call.
opts == searchOptions(options)

\* const current = queue.shift(), while the loop runs.
current == Head(queue)

\* The loop's variables.
LoopState ==
    [queue |-> queue,
     bestCandidate |-> bestCandidate,
     candidateCount |-> candidateCount,
     inspectedNodeCount |-> inspectedNodeCount,
     brk |-> FALSE]

\* A node is dequeued and the loop body takes the given way for it.
Takes(way) ==
    /\ pc = "loop"
    /\ queue # <<>>
    /\ Branch(current, candidateCount, opts) = way

\* The pass through the loop body.
Pass ==
    /\ LET s == LoopBody(LoopState, opts)
       IN  /\ queue' = s.queue
           /\ bestCandidate' = s.bestCandidate
           /\ candidateCount' = s.candidateCount
           /\ inspectedNodeCount' = s.inspectedNodeCount
           /\ pc' = IF s.brk THEN "exit" ELSE "loop"
    /\ UNCHANGED <<csvVars, dlVars, toastVars, logVars>>
    /\ UNCHANGED <<payload, options, result, earlier>>

\* if (payload === null || payload === undefined) return null;
ReturnEmptyPayload ==
    /\ pc = "start"
    /\ payload.kind = "null"
    /\ pc' = "done"
    /\ result' = Null
    /\ UNCHANGED <<csvVars, dlVars, toastVars, logVars>>
    /\ UNCHANGED <<payload, options, queue, bestCandidate, candidateCount,
                   inspectedNodeCount, earlier>>

\* Start that leaves the two counters as the call before left them.
StartKeepingCounters ==
    /\ pc = "start"
    /\ payload.kind # "null"
    /\ queue' = LoopStart(payload).queue
    /\ bestCandidate' = LoopStart(payload).bestCandidate
    /\ pc' = "loop"
    /\ UNCHANGED <<csvVars, dlVars, toastVars, logVars>>
    /\ UNCHANGED <<payload, options, result, earlier, candidateCount,
                   inspectedNodeCount>>

\* The queue, bestCandidate and the counters are set up.
Start ==
    /\ pc = "start"
    /\ payload.kind # "null"
    /\ queue' = LoopStart(payload).queue
    /\ bestCandidate' = LoopStart(payload).bestCandidate
    /\ candidateCount' = LoopStart(payload).candidateCount
    /\ inspectedNodeCount' = LoopStart(payload).inspectedNodeCount
    /\ pc' = "loop"
    /\ UNCHANGED <<csvVars, dlVars, toastVars, logVars>>
    /\ UNCHANGED <<payload, options, result, earlier>>

\* if (depth > searchOptions.maxDepth) continue;
SkipTooDeep ==
    /\ Takes("tooDeep")
    /\ Pass

\* if (containsExcludedTokens(path, ...)) continue;
SkipExcluded ==
    /\ Takes("excluded")
    /\ Pass

\* if (!containsRequiredTokens(path, ...)) continue;
SkipMissingRequired ==
    /\ Takes("missingRequired")
    /\ Pass

\* if (value.length === 0) { if (...) bestCandidate = ...; continue; }
VisitEmptyArray ==
    /\ Takes("emptyArray")
    /\ Pass

\* if (!hasObjectEntries(value, ...)) continue;
SkipNoObjectEntries ==
    /\ Takes("noObjectEntries")
    /\ Pass

\* if (rows.length < searchOptions.minRows) continue;
SkipTooFewRows ==
    /\ Takes("tooFewRows")
    /\ Pass

\* if (candidateCount >= searchOptions.maxCandidates) break;
StopAtMaxCandidates ==
    /\ Takes("break")
    /\ Pass

\* candidateCount += 1; the array is scored and kept if it beats the best.
ScoreArray ==
    /\ Takes("scored")
    /\ Pass

\* if (isPlainObject(value)) the children are enqueued.
ExpandObject ==
    /\ Takes("object")
    /\ Pass

\* A value that is neither an array nor a plain object: nothing is done.
VisitOther ==
    /\ Takes("other")
    /\ Pass

\* The loop is left (the queue is empty, or break): return bestCandidate.
Return ==
    /\ pc = "exit" \/ (pc = "loop" /\ queue = <<>>)
    /\ pc' = "done"
    /\ result' = bestCandidate
    /\ UNCHANGED <<csvVars, dlVars, toastVars, logVars>>
    /\ UNCHANGED <<payload, options, queue, bestCandidate, candidateCount,
                   inspectedNodeCount, earlier>>

Next ==
    \/ ReturnEmptyPayload
    \/ Start
    \/ SkipTooDeep
    \/ SkipExcluded
    \/ SkipMissingRequired
    \/ VisitEmptyArray
    \/ SkipNoObjectEntries
    \/ SkipTooFewRows
    \/ StopAtMaxCandidates
    \/ ScoreArray
    \/ ExpandObject
    \/ VisitOther
    \/ Return

\* The caller calls findExportableRows again with the same arguments, as
\* buildExecutionSnapshot does for every snapshot of a payload.  The
\* variables of the call before keep their values until the call sets them.
CallAgain ==
    /\ pc = "done"
    /\ Len(earlier) < MaxEarlierCalls
    /\ earlier' = Append(earlier, result)
    /\ pc' = "start"
    /\ UNCHANGED <<csvVars, dlVars, toastVars, logVars>>
    /\ UNCHANGED <<payload, options, queue, bestCandidate, candidateCount,
                   inspectedNodeCount, result>>

\* Calls of findExportableRows, one after the other.
RepeatNext ==
    \/ Next
    \/ CallAgain

(***************************************************************************)
(* The inputs of the model: payloads and options.                          *)
(***************************************************************************)
S_Meta == <<"M", "e", "t", "a">>
S_id == <<"i", "d">>
S_name == <<"n", "a", "m", "e">>
S_ITEMS == <<"I", "T", "E", "M", "S">>
S_TEM == <<"T", "E", "M">>
S_TA == <<"T", "A">>

\* The keys of the objects of a payload: 'items' holds a preferred token,
\* 'Meta' an excluded one in another case.
Keys == {S_items, S_Meta}

\* The elements of the arrays of a payload: { id }, { id, name }, {} and a
\* string.
RowV == ObjectV(<<[key |-> S_id, value |-> ScalarV]>>)
Row2V == ObjectV(<<[key |-> S_id, value |-> ScalarV],
                   [key |-> S_name, value |-> ScalarV]>>)
EmptyObjectV == ObjectV(<<>>)

\* The arrays of a payload: empty, of an empty object only, of one row, of
\* two rows with an empty object and a string between them.
ArrayValues ==
    {ArrayV(xs) : xs \in {<<>>,
                          <<EmptyObjectV>>,
                          <<RowV>>,
                          <<RowV, EmptyObjectV, ScalarV, Row2V>>}}

\* The values without entries: a string, {}, an array.
Leaves == {ScalarV, EmptyObjectV} \cup ArrayValues

EntryKeys(es) == {es[i].key : i \in 1..Len(es)}

\* ValuesOfSize(n): the values of exactly n nodes that object keys lead to
\* (the value itself included); EntryLists(n): the entry lists, of distinct
\* keys, whose values have exactly n nodes together.
RECURSIVE ValuesOfSize(_), EntryLists(_)
ValuesOfSize(n) ==
    IF n = 1 THEN Leaves
    ELSE {ObjectV(es) : es \in EntryLists(n - 1)}

EntryLists(n) ==
    IF n = 0 THEN {<<>>}
    ELSE UNION {
            LET vs == ValuesOfSize(s)
                rests == EntryLists(n - s)
            IN  UNION {
                    {<<[key |-> k, value |-> v]>> \o r : v \in vs, r \in
                        {x \in rests : k \notin EntryKeys(x)}}
                    : k \in Keys}
            : s \in 1..n}

\* null, and every value of at most MaxNodes nodes.
Payloads == {NullV} \cup UNION {ValuesOfSize(n) : n \in 1..MaxNodes}

\* The options object obj with property name set to value.
With(obj, name, value) ==
    [obj EXCEPT ![name] = value, !.given = @ \cup {name}]

\* Options objects that set the path token lists.
TokenOptions ==
    {With(NoOptions, "excludedPathTokens", <<S_TEM>>),
     With(With(NoOptions, "excludedPathTokens", <<>>),
          "requirePathTokens", <<S_ITEMS, S_meta>>),
     With(With(NoOptions, "excludedPathTokens", <<>>),
          "preferredPathTokens", <<S_meta, S_TA>>)}

\* obj with one of the options of depth, rows and node count set, or with
\* the thresholds minObjectKeys: 2, minObjectRatio: 0.75 (a ratio is a pair
\* <<numerator, denominator>>).
Limited(obj) ==
    {With(obj, "maxDepth", n) : n \in -1..2}
    \cup {With(obj, "minRows", n) : n \in 1..2}
    \cup {With(obj, "allowEmptyObjectRows", TRUE)}
    \cup {With(obj, "maxInspectedNodes", 2)}
    \cup {With(With(obj, "minObjectKeys", 2), "minObjectRatio", <<3, 4>>)}

\* obj, and obj with the cap on the candidates or the scoring preferences
\* set.
Tuned(obj) ==
    {obj}
    \cup {With(obj, "maxCandidates", n) : n \in 0..1}
    \cup {With(obj, "preferShallow", FALSE),
          With(obj, "preferLargeDatasets", FALSE),
          With(With(obj, "preferShallow", FALSE), "preferLargeDatasets", FALSE)}

OptionObjects ==
    Limited(NoOptions)
    \cup Tuned(NoOptions)
    \cup Tuned(With(NoOptions, "excludedPathTokens", <<>>))
    \cup TokenOptions

\* The legacy call form findExportableRows(payload, n), and the options
\* objects.
OptionInputs ==
    {[isNumber |-> TRUE, number |-> n, object |-> NoOptions] : n \in -1..2}
    \cup {[isNumber |-> FALSE, number |-> 0, object |-> o] : o \in OptionObjects}

Init ==
    /\ payload \in Payloads
    /\ options \in OptionInputs
    /\ pc = "start"
    /\ queue = <<>>
    /\ bestCandidate = Null
    /\ candidateCount = 0
    /\ inspectedNodeCount = 0
    /\ result = Null
    /\ earlier = <<>>
    /\ data = <<>>
    /\ csvOptions = Null
    /\ csvPc = "idle"
    /\ flatData = <<>>
    /\ headers = <<>>
    /\ csvRows = <<>>
    /\ csvResult = Null
    /\ DownloadIdle
    /\ ToastIdle
    /\ LoggerNew

Spec == Init /\ [][Next]_vars

\* null, and every value of less than MaxNodes nodes: the payloads of the
\* repeated calls.
SmallPayloads == {NullV} \cup UNION {ValuesOfSize(n) : n \in 1..(MaxNodes - 1)}

RepeatInit ==
    /\ Init
    /\ payload \in SmallPayloads

RepeatSpec == RepeatInit /\ [][RepeatNext]_vars

\* Arrays with arrays inside: in an object that is an element, as an element,
\* beside a row and with an empty array, and an empty array as an element.
InnerArrayV == ArrayV(<<RowV, Row2V>>)

NestedArrays ==
    {ArrayV(xs) : xs \in
        {<<ObjectV(<<[key |-> S_items, value |-> InnerArrayV]>>)>>,
         <<InnerArrayV>>,
         <<RowV, ObjectV(<<[key |-> S_items, value |-> InnerArrayV],
                           [key |-> S_Meta, value |-> ArrayV(<<>>)]>>)>>,
         <<ArrayV(<<>>)>>}}

\* null, such an array, and objects that hold one under a key, alone or
\* beside a value without entries.
NestedPayloads ==
    {NullV}
    \cup NestedArrays
    \cup {ObjectV(<<[key |-> k, value |-> a]>>) : k \in Keys, a \in NestedArrays}
    \cup {ObjectV(<<[key |-> S_items, value |-> a], [key |-> S_Meta, value |-> l]>>) :
            a \in NestedArrays, l \in Leaves}

NestedInit ==
    /\ payload \in NestedPayloads
    /\ options \in OptionInputs
    /\ pc = "start"
    /\ queue = <<>>
    /\ bestCandidate = Null
    /\ candidateCount = 0
    /\ inspectedNodeCount = 0
    /\ result = Null
    /\ earlier = <<>>
    /\ data = <<>>
    /\ csvOptions = Null
    /\ csvPc = "idle"
    /\ flatData = <<>>
    /\ headers = <<>>
    /\ csvRows = <<>>
    /\ csvResult = Null
    /\ DownloadIdle
    /\ ToastIdle
    /\ LoggerNew

NestedSpec == NestedInit /\ [][Next]_vars

\* The options of the calls that are followed to their end: the legacy
\* form, no options, and one option object for each of the limits and the
\* token lists.
RunOptionInputs ==
    {[isNumber |-> TRUE, number |-> n, object |-> NoOptions] : n \in -1..0}
    \cup {[isNumber |-> FALSE, number |-> 0, object |-> o] :
            o \in {NoOptions,
                   With(NoOptions, "maxDepth", 1),
                   With(NoOptions, "minRows", 2),
                   With(NoOptions, "allowEmptyObjectRows", TRUE),
                   With(NoOptions, "maxCandidates", 0),
                   With(NoOptions, "maxCandidates", 1)}
                  \cup TokenOptions}

\* One call that runs on: the function is sequential code, so a call that
\* can take a step takes it.
RunInit ==
    /\ NestedInit
    /\ options \in RunOptionInputs

RunSpec == RunInit /\ [][Next]_vars /\ WF_vars(Next)

(***************************************************************************)
(* The CSV conversion: convertArrayToCSVWithMetadata, in the text of       *)
(* src/lib/utils/executionSnapshot.test.ts from line 43 on.                *)
(*                                                                         *)
(* A value of a row is a record of one shape:                              *)
(*   kind    "null", "undefined", "string", "object", "array" or "date";   *)
(*   text    the characters of a string, toISOString() of a date;          *)
(*   locale  toLocaleString() of a date;                                   *)
(*   entries the properties of an object in the order of Object.keys:      *)
(*           <<[key, value], ...>>;                                        *)
(*   elems   the elements of an array.                                     *)
(* A string stands for every primitive: String(value) of a string is the   *)
(* string.  The elements of the arrays are strings.                        *)
(***************************************************************************)
CsvValue(kind, text, locale, entries, elems) ==
    [kind |-> kind, text |-> text, locale |-> locale,
     entries |-> entries, elems |-> elems]
CsvNull == CsvValue("null", <<>>, <<>>, <<>>, <<>>)
CsvUndefined == CsvValue("undefined", <<>>, <<>>, <<>>, <<>>)
CsvString(text) == CsvValue("string", text, <<>>, <<>>, <<>>)
CsvObject(entries) == CsvValue("object", <<>>, <<>>, entries, <<>>)
CsvArray(elems) == CsvValue("array", <<>>, <<>>, <<>>, elems)
CsvDate(iso, locale) == CsvValue("date", iso, locale, <<>>, <<>>)

DQ == "\""
LF == "\n"
CR == "\r"
BOM == "\\uFEFF"

\* Object.keys(obj)
ObjectKeys(obj) == [i \in 1..Len(obj.entries) |-> obj.entries[i].key]

\* acc[key] = value: a new property comes last, a property the object has
\* keeps its place.
Put(obj, key, value) ==
    LET at == {i \in 1..Len(obj.entries) : obj.entries[i].key = key}
    IN  IF at = {}
        THEN CsvObject(Append(obj.entries, [key |-> key, value |-> value]))
        ELSE CsvObject([i \in 1..Len(obj.entries) |->
                          IF i \in at THEN [key |-> key, value |-> value]
                          ELSE obj.entries[i]])

\* Object.assign(acc, source)
RECURSIVE ObjectAssign(_, _)
ObjectAssign(acc, source) ==
    IF source.entries = <<>> THEN acc
    ELSE ObjectAssign(Put(acc, source.entries[1].key, source.entries[1].value),
                      CsvObject(Tail(source.entries)))

\* row[header]
Get(obj, key) ==
    LET at == {i \in 1..Len(obj.entries) : obj.entries[i].key = key}
    IN  IF at = {} THEN CsvUndefined
        ELSE obj.entries[CHOOSE i \in at : TRUE].value

RECURSIVE flattenObject(_, _)

\* flattenObject that keys a value of a nested object by its own key alone.
flattenObjectWithoutPrefix(obj, prefix) ==
    LET RECURSIVE Reduce(_, _)
        Reduce(i, acc) ==
            IF i > Len(obj.entries) THEN acc
            ELSE LET key == obj.entries[i].key
                     value == obj.entries[i].value
                 IN  Reduce(i + 1,
                            IF value.kind = "object"
                            THEN ObjectAssign(acc, flattenObject(value, key))
                            ELSE Put(acc, key, value))
    IN  Reduce(1, CsvObject(<<>>))

\* const flattenObject = (obj, prefix = '') => Object.keys(obj).reduce(...)
flattenObject(obj, prefix) ==
    LET pre == IF Len(prefix) > 0 THEN prefix \o <<".">> ELSE <<>>
        RECURSIVE Reduce(_, _)
        Reduce(i, acc) ==
            IF i > Len(obj.entries) THEN acc
            ELSE LET key == obj.entries[i].key
                     value == obj.entries[i].value
                 IN  Reduce(i + 1,
                            IF value.kind = "object"
                            THEN ObjectAssign(acc, flattenObject(value, pre \o key))
                            ELSE Put(acc, pre \o key, value))
    IN  Reduce(1, CsvObject(<<>>))

\* Array.prototype.join
RECURSIVE Join(_, _)
Join(list, separator) ==
    IF list = <<>> THEN <<>>
    ELSE IF Len(list) = 1 THEN list[1]
    ELSE list[1] \o separator \o Join(Tail(list), separator)

\* JSON.stringify of one character of a string.
JsonChar(c) ==
    CASE c = DQ -> <<"\\", DQ>>
      [] c = "\\" -> <<"\\", "\\">>
      [] c = LF -> <<"\\", "n">>
      [] c = CR -> <<"\\", "r">>
      [] OTHER -> <<c>>

\* JSON.stringify of a string.
JsonString(text) ==
    <<DQ>> \o Join([i \in 1..Len(text) |-> JsonChar(text[i])], <<>>) \o <<DQ>>

\* JSON.stringify of an array of strings.
JsonStringify(value) ==
    <<"[">> \o Join([i \in 1..Len(value.elems) |-> JsonString(value.elems[i].text)],
                    <<",">>)
            \o <<"]">>

\* const serializeCellValue = (value, options) => ...  A flattened row holds
\* no plain object, and the values of the model hold no other object than
\* arrays and dates.
serializeCellValue(value, o) ==
    CASE value.kind \in {"null", "undefined"} -> <<>>
      [] value.kind = "array" ->
            IF o.arrayMode = "join"
            THEN Join([i \in 1..Len(value.elems) |-> value.elems[i].text],
                      o.arrayJoinDelimiter)
            ELSE JsonStringify(value)
      [] value.kind = "date" ->
            IF o.dateMode = "locale" THEN value.locale ELSE value.text
      [] OTHER -> value.text

\* const sanitizeExcelFormula = (value, enabled) => ...
sanitizeExcelFormula(value, enabled) ==
    IF ~enabled THEN value
    ELSE IF Len(value) > 0 /\ value[1] \in {"=", "+", "-", "@"}
    THEN <<"'">> \o value
    ELSE value

\* value.replace(/"/g, '""')
DoubleQuotes(value) ==
    Join([i \in 1..Len(value) |-> IF value[i] = DQ THEN <<DQ, DQ>> ELSE <<value[i]>>],
         <<>>)

\* escapeCsvCell that does not test for '\r'.
escapeCsvCellWithoutCR(value, delimiter) ==
    IF \/ includes(value, delimiter)
       \/ includes(value, <<DQ>>)
       \/ includes(value, <<LF>>)
    THEN <<DQ>> \o DoubleQuotes(value) \o <<DQ>>
    ELSE value

\* const escapeCsvCell = (value, delimiter) => ...
escapeCsvCell(value, delimiter) ==
    IF \/ includes(value, delimiter)
       \/ includes(value, <<DQ>>)
       \/ includes(value, <<LF>>)
       \/ includes(value, <<CR>>)
    THEN <<DQ>> \o DoubleQuotes(value) \o <<DQ>>
    ELSE value

\* The options object {} of the conversion.  maxRows, maxCellLength and
\* quoteMode are properties a caller passes; CsvConversionOptions does not
\* declare them.
NoCsvOptions ==
    [given |-> {},
     delimiter |-> <<>>, lineTerminator |-> <<>>, includeBom |-> FALSE,
     headers |-> <<>>, sortHeaders |-> FALSE, excelSafeMode |-> FALSE,
     arrayMode |-> "json", arrayJoinDelimiter |-> <<>>, dateMode |-> "iso",
     maxRows |-> 0, maxCellLength |-> 0, quoteMode |-> "auto"]

\* options?.<name> || <default>, for a string: '' is falsy.
OrElse(obj, name, default) ==
    IF name \in obj.given /\ obj[name] # <<>> THEN obj[name] ELSE default

\* const normalizeCsvOptions = (options?) => ({ ... }).  An array is truthy
\* and so are the names of the modes: for them || is ??.
normalizeCsvOptions(o) ==
    LET obj == IF o = Null THEN NoCsvOptions ELSE o[1]
    IN  [delimiter |-> OrElse(obj, "delimiter", <<",">>),
         lineTerminator |-> OrElse(obj, "lineTerminator", <<LF>>),
         includeBom |-> Coalesce(obj, "includeBom", FALSE),
         headers |-> Coalesce(obj, "headers", <<>>),
         sortHeaders |-> Coalesce(obj, "sortHeaders", FALSE),
         excelSafeMode |-> Coalesce(obj, "excelSafeMode", FALSE),
         arrayMode |-> Coalesce(obj, "arrayMode", "json"),
         arrayJoinDelimiter |-> OrElse(obj, "arrayJoinDelimiter", <<";", " ">>),
         dateMode |-> Coalesce(obj, "dateMode", "iso")]

\* flatData.reduce((keys, row) => keys.concat(Object.keys(row)), [])
AllKeys(rows) == Join([i \in 1..Len(rows) |-> ObjectKeys(rows[i])], <<>>)

\* Array.from(new Set(list)): of equal elements the first one stays.
ArrayFromSet(list) ==
    LET RECURSIVE Add(_, _)
        Add(i, acc) ==
            IF i > Len(list) THEN acc
            ELSE Add(i + 1,
                     IF \E k \in 1..Len(acc) : acc[k] = list[i]
                     THEN acc
                     ELSE Append(acc, list[i]))
    IN  Add(1, <<>>)

\* discoveredHeaders that keeps a key once for every row that has it.
discoveredHeadersOfEveryRow(rows) == AllKeys(rows)

\* const discoveredHeaders = Array.from(new Set(...))
discoveredHeaders(rows) == ArrayFromSet(AllKeys(rows))

\* The characters of the keys of the model in the order of the collation:
\* the full stop comes before the letters.
CollationOrder == <<".", "a", "b", "c", "d">>

Rank(c) == CHOOSE i \in 1..Len(CollationOrder) : CollationOrder[i] = c

\* left.localeCompare(right), for strings of the characters above.
RECURSIVE localeCompare(_, _)
localeCompare(left, right) ==
    IF left = <<>> /\ right = <<>> THEN 0
    ELSE IF left = <<>> THEN -1
    ELSE IF right = <<>> THEN 1
    ELSE IF Rank(left[1]) < Rank(right[1]) THEN -1
    ELSE IF Rank(left[1]) > Rank(right[1]) THEN 1
    ELSE localeCompare(Tail(left), Tail(right))

\* [...list].sort((left, right) => left.localeCompare(right)): a stable
\* sort, each element put behind the elements that do not come after it.
SortedByLocale(list) ==
    LET Insert(sorted, x) ==
            LET p == Cardinality({i \in 1..Len(sorted) :
                                     localeCompare(sorted[i], x) <= 0})
            IN  SubSeq(sorted, 1, p) \o <<x>> \o SubSeq(sorted, p + 1, Len(sorted))
        RECURSIVE Sort(_, _)
        Sort(i, acc) ==
            IF i > Len(list) THEN acc ELSE Sort(i + 1, Insert(acc, list[i]))
    IN  Sort(1, <<>>)

\* The way the headers are chosen: the tests of the conditional expression
\* in the order of the code.
HeaderWay(o) ==
    IF Len(o.headers) > 0 THEN "option"
    ELSE IF o.sortHeaders THEN "sorted"
    ELSE "discovered"

\* SelectHeaders that sorts the discovered keys before it looks at the
\* headers option.
SelectHeadersSortFirst(o, discovered) ==
    IF o.sortHeaders THEN SortedByLocale(discovered)
    ELSE IF Len(o.headers) > 0 THEN o.headers
    ELSE discovered

\* const headers = normalizedOptions.headers.length > 0 ? ... : ...
SelectHeaders(o, discovered) ==
    IF Len(o.headers) > 0 THEN o.headers
    ELSE IF o.sortHeaders THEN SortedByLocale(discovered)
    ELSE discovered

\* RowCells that escapes a cell before it looks for a formula.
RowCellsEscapedFirst(row, hs, o) ==
    [j \in 1..Len(hs) |->
        sanitizeExcelFormula(
            escapeCsvCell(serializeCellValue(Get(row, hs[j]), o), o.delimiter),
            o.excelSafeMode)]

\* headers.map((header) => escapeCsvCell(sanitizeExcelFormula(
\*     serializeCellValue(row[header], ...), ...), ...))
RowCells(row, hs, o) ==
    [j \in 1..Len(hs) |->
        escapeCsvCell(
            sanitizeExcelFormula(serializeCellValue(Get(row, hs[j]), o),
                                 o.excelSafeMode),
            o.delimiter)]

\* One element of csvRows: the cells joined by the delimiter.
CsvRowOf(row, hs, o) == Join(RowCells(row, hs, o), o.delimiter)

\* [headers.join(delimiter), ...csvRows].join(lineTerminator), with the
\* byte order mark in front when includeBom is set.
CsvText(hs, rows, o) ==
    LET csvBody == Join(<<Join(hs, o.delimiter)>> \o rows, o.lineTerminator)
    IN  IF o.includeBom THEN <<BOM>> \o csvBody ELSE csvBody

csvOpts == normalizeCsvOptions(csvOptions)

(***************************************************************************)
(* The steps of convertArrayToCSVWithMetadata.                             *)
(***************************************************************************)
\* if (!data || !data.length) return { csv: '', headers: [], rowCount: 0 }
ReturnEmptyCsv ==
    /\ csvPc = "start"
    /\ data = <<>>
    /\ csvResult' = Some([csv |-> <<>>, headers |-> <<>>, rowCount |-> 0])
    /\ csvPc' = "done"
    /\ UNCHANGED <<data, csvOptions, flatData, headers, csvRows>>
    /\ UNCHANGED <<exportVars, dlVars, toastVars, logVars>>

\* const flatData = ...; const discoveredHeaders = ...; const headers = ...
StartRows ==
    /\ csvPc = "start"
    /\ data # <<>>
    /\ flatData' = [i \in 1..Len(data) |-> flattenObject(data[i], <<>>)]
    /\ headers' = SelectHeaders(csvOpts, discoveredHeaders(flatData'))
    /\ csvPc' = "rows"
    /\ UNCHANGED <<data, csvOptions, csvRows, csvResult>>
    /\ UNCHANGED <<exportVars, dlVars, toastVars, logVars>>

UseHeadersOption ==
    /\ HeaderWay(csvOpts) = "option"
    /\ StartRows

UseSortedHeaders ==
    /\ HeaderWay(csvOpts) = "sorted"
    /\ StartRows

UseDiscoveredHeaders ==
    /\ HeaderWay(csvOpts) = "discovered"
    /\ StartRows

\* One call of the function passed to flatData.map: the next row of csvRows.
EmitRow ==
    /\ csvPc = "rows"
    /\ Len(csvRows) < Len(flatData)
    /\ csvRows' = Append(csvRows,
                         CsvRowOf(flatData[Len(csvRows) + 1], headers, csvOpts))
    /\ UNCHANGED <<data, csvOptions, csvPc, flatData, headers, csvResult>>
    /\ UNCHANGED <<exportVars, dlVars, toastVars, logVars>>

\* return { csv, headers, rowCount: data.length }
ReturnCsv ==
    /\ csvPc = "rows"
    /\ Len(csvRows) = Len(flatData)
    /\ csvResult' = Some([csv |-> CsvText(headers, csvRows, csvOpts),
                          headers |-> headers,
                          rowCount |-> Len(data)])
    /\ csvPc' = "done"
    /\ UNCHANGED <<data, csvOptions, flatData, headers, csvRows>>
    /\ UNCHANGED <<exportVars, dlVars, toastVars, logVars>>

CsvNext ==
    \/ ReturnEmptyCsv
    \/ UseHeadersOption
    \/ UseSortedHeaders
    \/ UseDiscoveredHeaders
    \/ EmitRow
    \/ ReturnCsv

(***************************************************************************)
(* The inputs of the conversion.                                           *)
(***************************************************************************)
K_a == <<"a">>
K_b == <<"b">>
K_c == <<"c">>
K_d == <<"d">>

\* A row of one property.
Row1(key, value) == CsvObject(<<[key |-> key, value |-> value]>>)

\* A date as its two texts.
ADate == CsvDate(<<"2", "0", "2", "4", "-", "0", "1", "-", "0", "1", "T", "0", "0", ":", "0", "0", ":", "0", "0", ".", "0", "0", "0", "Z">>,
                 <<"1", "/", "1", "/", "2", "0", "2", "4", ",", " ", "1", "2", ":", "0", "0", ":", "0", "0", " ", "A", "M">>)

\* The rows: without a property; with a plain text, a comma, a semicolon, a
\* double quote, a line feed, a carriage return, a formula; with an empty
\* string and null under keys in the order b, a; with undefined and a nested
\* object (that holds an object, that holds an empty object); with an array;
\* with a date.
CsvRowShapes ==
    {CsvObject(<<>>),
     Row1(K_a, CsvString(<<"a">>)),
     Row1(K_a, CsvString(<<"a", ",", "b">>)),
     Row1(K_a, CsvString(<<"a", ";">>)),
     Row1(K_a, CsvString(<<"a", DQ, "b">>)),
     Row1(K_a, CsvString(<<"a", LF, "b">>)),
     Row1(K_a, CsvString(<<CR>>)),
     Row1(K_a, CsvString(<<"=", DQ, "a", DQ>>)),
     CsvObject(<<[key |-> K_b, value |-> CsvString(<<>>)],
                 [key |-> K_a, value |-> CsvNull]>>),
     CsvObject(<<[key |-> K_a, value |-> CsvUndefined],
                 [key |-> K_c,
                  value |-> CsvObject(<<[key |-> K_d, value |-> CsvString(<<"b">>)],
                                        [key |-> K_b, value |-> CsvObject(<<
                                            [key |-> K_a, value |-> CsvString(<<"a">>)],
                                            [key |-> K_c, value |-> CsvObject(<<>>)]>>)]>>)]>>),
     Row1(K_b, CsvArray(<<CsvString(<<"a">>), CsvString(<<"b">>)>>)),
     Row1(K_b, ADate)}

\* The arrays of at most MaxDataRows rows.
DataInputs == UNION {[1..n -> CsvRowShapes] : n \in 0..MaxDataRows}

\* The options objects of the conversion.
CsvOptionObjects ==
    {With(NoCsvOptions, "delimiter", <<>>),
     With(NoCsvOptions, "delimiter", <<";">>),
     With(NoCsvOptions, "lineTerminator", <<CR, LF>>),
     With(NoCsvOptions, "includeBom", TRUE),
     With(NoCsvOptions, "sortHeaders", TRUE),
     With(NoCsvOptions, "headers", <<>>),
     With(NoCsvOptions, "headers", <<K_b, K_a>>),
     With(NoCsvOptions, "headers", <<K_c, K_a, K_a>>),
     With(With(NoCsvOptions, "headers", <<K_b, K_a>>), "sortHeaders", TRUE),
     With(NoCsvOptions, "excelSafeMode", TRUE),
     With(NoCsvOptions, "arrayMode", "join"),
     With(NoCsvOptions, "dateMode", "locale"),
     With(With(NoCsvOptions, "maxRows", 1), "maxCellLength", 4),
     With(NoCsvOptions, "headers", <<K_a, <<"a", ",", "b">>>>),
     With(NoCsvOptions, "quoteMode", "always")}

\* convertArrayToCSVWithMetadata(data) and
\* convertArrayToCSVWithMetadata(data, options)
CsvOptionInputs == {Null} \cup {Some(o) : o \in CsvOptionObjects}

CsvInit ==
    /\ data \in DataInputs
    /\ csvOptions \in CsvOptionInputs
    /\ csvPc = "start"
    /\ flatData = <<>>
    /\ headers = <<>>
    /\ csvRows = <<>>
    /\ csvResult = Null
    /\ DownloadIdle
    /\ ToastIdle
    /\ LoggerNew
    /\ payload = NullV
    /\ options = [isNumber |-> FALSE, number |-> 0, object |-> NoOptions]
    /\ pc = "idle"
    /\ queue = <<>>
    /\ bestCandidate = Null
    /\ candidateCount = 0
    /\ inspectedNodeCount = 0
    /\ result = Null
    /\ earlier = <<>>

CsvSpec == CsvInit /\ [][CsvNext]_vars

(***************************************************************************)
(* The downloads: downloadCSV and downloadTextFile with normalizeFilename  *)
(* and triggerDownload (src/lib/utils/executionSnapshot.test.ts, 99-103    *)
(* and 210-294).  The document of a call is the environment it runs in:    *)
(* "undefined" without a document, "noDownloadAttribute" in a browser      *)
(* whose anchors have no download attribute, "browser" otherwise.          *)
(* The Logger calls of these functions write to the Logger service alone  *)
(* and are the calls of the logger's own specification.                    *)
(***************************************************************************)
\* String.prototype.trim; the white space of the model is the blank.
RECURSIVE Trim(_)
Trim(s) ==
    IF s = <<>> THEN s
    ELSE IF s[1] = " " THEN Trim(Tail(s))
    ELSE IF s[Len(s)] = " " THEN Trim(SubSeq(s, 1, Len(s) - 1))
    ELSE s

\* The characters of the class [\\/:*?"<>|]
IllegalFilenameChars == {"\\", "/", ":", "*", "?", DQ, "<", ">", "|"}

\* normalizeFilename whose replace has no g flag: the first match only.
normalizeFilenameFirstMatch(filename, fallback) ==
    LET trimmed == Trim(filename)
        matches == {i \in 1..Len(trimmed) : trimmed[i] \in IllegalFilenameChars}
        safe == [i \in 1..Len(trimmed) |->
                    IF matches # {} /\ i = CHOOSE m \in matches : \A k \in matches : m <= k
                    THEN "_" ELSE trimmed[i]]
    IN  IF safe # <<>> THEN safe ELSE fallback

\* const normalizeFilename = (filename, fallback) => ...
normalizeFilename(filename, fallback) ==
    LET trimmed == Trim(filename)
        safe == [i \in 1..Len(trimmed) |->
                    IF trimmed[i] \in IllegalFilenameChars THEN "_" ELSE trimmed[i]]
    IN  IF safe # <<>> THEN safe ELSE fallback

S_export_csv == <<"e", "x", "p", "o", "r", "t", ".", "c", "s", "v">>
S_export_txt == <<"e", "x", "p", "o", "r", "t", ".", "t", "x", "t">>

\* The test !csv of downloadCSV that never holds.
NothingToDownloadNever(content) == FALSE

\* if (!csv) return;  if (!content) return;
NothingToDownload(content) == content = <<>>

\* filename = 'export.csv': the default of a parameter that is not given.
FilenameOr(filename, default) == IF filename = Null THEN default ELSE filename[1]

\* downloadCSV: if (!csv) return
CsvNothingToDownload ==
    /\ dlPc = "start"
    /\ dlCall[1].fn = "downloadCSV"
    /\ csvPc = "done"
    /\ NothingToDownload(csvResult[1].csv)
    /\ dlPc' = "done"
    /\ UNCHANGED <<dlCall, dlFile, downloads>>
    /\ UNCHANGED <<exportVars, csvVars, toastVars, logVars>>

\* downloadCSV: triggerDownload(csv, safeFilename, 'text/csv;charset=utf-8;')
DownloadCsvFile ==
    /\ dlPc = "start"
    /\ dlCall[1].fn = "downloadCSV"
    /\ csvPc = "done"
    /\ ~NothingToDownload(csvResult[1].csv)
    /\ dlFile' = Some([content |-> csvResult[1].csv,
                       filename |-> normalizeFilename(
                                        FilenameOr(dlCall[1].filename, S_export_csv),
                                        S_export_csv),
                       mimeType |-> "text/csv;charset=utf-8;"])
    /\ dlPc' = "trigger"
    /\ UNCHANGED <<dlCall, downloads>>
    /\ UNCHANGED <<exportVars, csvVars, toastVars, logVars>>

\* downloadTextFile: if (!content) return
TextNothingToDownload ==
    /\ dlPc = "start"
    /\ dlCall[1].fn = "downloadTextFile"
    /\ NothingToDownload(dlCall[1].content)
    /\ dlPc' = "done"
    /\ UNCHANGED <<dlCall, dlFile, downloads>>
    /\ UNCHANGED <<exportVars, csvVars, toastVars, logVars>>

\* downloadTextFile: triggerDownload(content, safeFilename, mimeType)
DownloadTextFile ==
    /\ dlPc = "start"
    /\ dlCall[1].fn = "downloadTextFile"
    /\ ~NothingToDownload(dlCall[1].content)
    /\ dlFile' = Some([content |-> dlCall[1].content,
                       filename |-> normalizeFilename(dlCall[1].filename[1],
                                                      S_export_txt),
                       mimeType |-> "text/plain;charset=utf-8;"])
    /\ dlPc' = "trigger"
    /\ UNCHANGED <<dlCall, downloads>>
    /\ UNCHANGED <<exportVars, csvVars, toastVars, logVars>>

\* triggerDownload: if (typeof document === 'undefined') return
SkipWithoutDocument ==
    /\ dlPc = "trigger"
    /\ dlCall[1].document = "undefined"
    /\ dlPc' = "done"
    /\ UNCHANGED <<dlCall, dlFile, downloads>>
    /\ UNCHANGED <<exportVars, csvVars, toastVars, logVars>>

\* triggerDownload: if (link.download === undefined) return
SkipWithoutDownloadAttribute ==
    /\ dlPc = "trigger"
    /\ dlCall[1].document = "noDownloadAttribute"
    /\ dlPc' = "done"
    /\ UNCHANGED <<dlCall, dlFile, downloads>>
    /\ UNCHANGED <<exportVars, csvVars, toastVars, logVars>>

\* triggerDownload: link.setAttribute('download', filename); link.click()
ClickLink ==
    /\ dlPc = "trigger"
    /\ dlCall[1].document = "browser"
    /\ downloads' = Append(downloads, dlFile[1])
    /\ dlPc' = "done"
    /\ UNCHANGED <<dlCall, dlFile>>
    /\ UNCHANGED <<exportVars, csvVars, toastVars, logVars>>

DownloadNext ==
    \/ CsvNext
    \/ CsvNothingToDownload
    \/ DownloadCsvFile
    \/ TextNothingToDownload
    \/ DownloadTextFile
    \/ SkipWithoutDocument
    \/ SkipWithoutDownloadAttribute
    \/ ClickLink

\* The characters of the longer file names, and the file names: of one
\* character of the class or of the longer names, and the names of at most
\* MaxNameLength characters.
FilenameChars == {" ", "a", "/", DQ}

Filenames ==
    {<<c>> : c \in IllegalFilenameChars \cup FilenameChars}
    \cup UNION {[1..n -> FilenameChars] : n \in 0..MaxNameLength}

Documents == {"undefined", "noDownloadAttribute", "browser"}

\* downloadCSV(data), downloadCSV(data, filename, options) and
\* downloadTextFile(content, filename)
DownloadCalls ==
    {[fn |-> "downloadCSV", filename |-> f, content |-> <<>>, document |-> d] :
        f \in {Null} \cup {Some(n) : n \in Filenames}, d \in Documents}
    \cup {[fn |-> "downloadTextFile", filename |-> Some(n), content |-> c,
           document |-> d] :
            n \in Filenames, c \in {<<>>, <<"a">>}, d \in Documents}

\* The rows of a downloadCSV call: none, a row without a key, a row of two
\* keys.
DownloadData ==
    {<<>>,
     <<CsvObject(<<>>)>>,
     <<CsvObject(<<[key |-> K_b, value |-> CsvString(<<>>)],
                   [key |-> K_a, value |-> CsvNull]>>)>>}

DownloadInit ==
    /\ dlCall \in {Some(c) : c \in DownloadCalls}
    /\ dlPc = "start"
    /\ dlFile = Null
    /\ downloads = <<>>
    /\ IF dlCall[1].fn = "downloadCSV"
       THEN /\ csvPc = "start"
            /\ \/ data = <<>> /\ csvOptions \in CsvOptionInputs
               \/ /\ data \in DownloadData
                  /\ csvOptions \in {Null,
                                     Some(With(NoCsvOptions, "includeBom", TRUE)),
                                     Some(With(NoCsvOptions, "sortHeaders", TRUE)),
                                     Some(With(NoCsvOptions, "headers", <<K_b, K_a>>))}
       ELSE /\ csvPc = "idle"
            /\ data = <<>>
            /\ csvOptions = Null
    /\ flatData = <<>>
    /\ headers = <<>>
    /\ csvRows = <<>>
    /\ csvResult = Null
    /\ payload = NullV
    /\ options = [isNumber |-> FALSE, number |-> 0, object |-> NoOptions]
    /\ pc = "idle"
    /\ queue = <<>>
    /\ bestCandidate = Null
    /\ candidateCount = 0
    /\ inspectedNodeCount = 0
    /\ result = Null
    /\ earlier = <<>>
    /\ ToastIdle
    /\ LoggerNew

DownloadSpec == DownloadInit /\ [][DownloadNext]_vars

(***************************************************************************)
(* The toast store (src/lib/stores/toastStore.ts).  An id is the number of *)
(* the addToast call that drew it: crypto.randomUUID() returns an id no    *)
(* earlier call returned.  The clock counts milliseconds; a timer runs at  *)
(* the millisecond it is due, before the clock moves on.                   *)
(***************************************************************************)
DEFAULT_TOAST_TIMEOUT_MS == 3000

\* timeout = DEFAULT_TOAST_TIMEOUT_MS, type = 'info'
ToastTimeout(timeout) == IF timeout = Null THEN DEFAULT_TOAST_TIMEOUT_MS ELSE timeout[1]

ToastType(type) == IF type = Null THEN "info" ELSE type[1]

\* if (timeout && timeout > 0)
SetsTimer(timeout) == timeout # 0 /\ timeout > 0

\* toasts.filter((t) => t.id !== id) that drops the first toast instead.
WithoutFirstToast(list, id) == IF list = <<>> THEN list ELSE Tail(list)

\* toasts.filter((t) => t.id !== id)
WithoutToast(list, id) == SelectSeq(list, LAMBDA t : t.id # id)

\* The type and the timeout of a call: not given, or given.
ToastTypes == {Null, Some("error")}

ToastTimeouts == {Null} \cup {Some(t) : t \in -1..MaxTimeout}

\* addToast({ message, type, timeout }), and add, info, success, warning
\* and error, which call it
AddToast ==
    /\ toastCount < MaxToasts
    /\ \E type \in ToastTypes, timeout \in ToastTimeouts :
          LET id == toastCount + 1
              toastEntry == [id |-> id,
                             type |-> ToastType(type),
                             timeout |-> ToastTimeout(timeout),
                             createdAt |-> now]
          IN  /\ toasts' = Append(toasts, toastEntry)
              /\ timers' = IF SetsTimer(ToastTimeout(timeout))
                           THEN timers \cup {[id |-> id,
                                              due |-> now + ToastTimeout(timeout)]}
                           ELSE timers
              /\ toastCount' = id
              /\ toastHistory' = Append(toastHistory,
                                        [createdAt |-> now,
                                         timeout |-> ToastTimeout(timeout),
                                         removed |-> FALSE,
                                         cleared |-> FALSE])
    /\ UNCHANGED now
    /\ UNCHANGED <<exportVars, csvVars, dlVars, logVars>>

\* remove(id), called with the id of a toast or with an id of no toast (0)
RemoveToast ==
    /\ \E id \in 0..toastCount :
          /\ toasts' = WithoutToast(toasts, id)
          /\ toastHistory' = [i \in 1..Len(toastHistory) |->
                                 IF i = id
                                 THEN [toastHistory[i] EXCEPT !.removed = TRUE]
                                 ELSE toastHistory[i]]
    /\ UNCHANGED <<timers, now, toastCount>>
    /\ UNCHANGED <<exportVars, csvVars, dlVars, logVars>>

\* clear()
ClearToasts ==
    /\ toasts' = <<>>
    /\ toastHistory' = [i \in 1..Len(toastHistory) |->
                           [toastHistory[i] EXCEPT !.cleared = TRUE]]
    /\ UNCHANGED <<timers, now, toastCount>>
    /\ UNCHANGED <<exportVars, csvVars, dlVars, logVars>>

\* setTimeout(() => { remove(id); }, timeout): the callback of a timer that
\* is due
FireTimer ==
    /\ \E t \in timers :
          /\ t.due <= now
          /\ timers' = timers \ {t}
          /\ toasts' = WithoutToast(toasts, t.id)
    /\ UNCHANGED <<now, toastCount, toastHistory>>
    /\ UNCHANGED <<exportVars, csvVars, dlVars, logVars>>

\* The time to the next timer, or 0 without a timer.
ToNextTimer ==
    IF timers = {} THEN 0
    ELSE (CHOOSE t \in timers : \A u \in timers : t.due <= u.due).due - now

\* Time passes: one millisecond early on, or up to the millisecond before
\* the next timer, or up to the next timer; never past a timer that is due.
PassTime ==
    /\ \A t \in timers : t.due > now
    /\ \E d \in (IF now < MaxClock THEN {1} ELSE {})
                \cup (IF timers # {} THEN {ToNextTimer - 1, ToNextTimer} ELSE {}) :
          /\ d > 0
          /\ timers # {} => d <= ToNextTimer
          /\ now' = now + d
    /\ UNCHANGED <<toasts, timers, toastCount, toastHistory>>
    /\ UNCHANGED <<exportVars, csvVars, dlVars, logVars>>

ToastNext ==
    \/ AddToast
    \/ RemoveToast
    \/ ClearToasts
    \/ FireTimer
    \/ PassTime

ToastInit ==
    /\ ToastIdle
    /\ payload = NullV
    /\ options = [isNumber |-> FALSE, number |-> 0, object |-> NoOptions]
    /\ pc = "idle"
    /\ queue = <<>>
    /\ bestCandidate = Null
    /\ candidateCount = 0
    /\ inspectedNodeCount = 0
    /\ result = Null
    /\ earlier = <<>>
    /\ data = <<>>
    /\ csvOptions = Null
    /\ csvPc = "idle"
    /\ flatData = <<>>
    /\ headers = <<>>
    /\ csvRows = <<>>
    /\ csvResult = Null
    /\ DownloadIdle
    /\ LoggerNew

ToastSpec == ToastInit /\ [][ToastNext]_vars

(***************************************************************************)
(* The logger (LoggerService of src/lib/utils/logger.test.ts, 42-210).     *)
(* The message of an entry is the number of its call since the last        *)
(* clear(); its timestamp and what is written to the console are left out. *)
(***************************************************************************)
\* enum LogLevel { DEBUG = 0, INFO = 1, WARN = 2, ERROR = 3 }
LogLevelNames == <<"DEBUG", "INFO", "WARN", "ERROR">>

LogLevel(name) == (CHOOSE i \in 1..Len(LogLevelNames) : LogLevelNames[i] = name) - 1

\* String.prototype.toUpperCase
LowerCaseLetters == <<"a", "b", "c", "d", "e", "f", "g", "h", "i", "j", "k", "l", "m", "n", "o", "p", "q", "r", "s", "t", "u", "v", "w", "x", "y", "z">>
UpperCaseLetters == <<"A", "B", "C", "D", "E", "F", "G", "H", "I", "J", "K", "L", "M", "N", "O", "P", "Q", "R", "S", "T", "U", "V", "W", "X", "Y", "Z">>

ToUpperCase(s) ==
    [i \in 1..Len(s) |->
        IF \E k \in 1..Len(LowerCaseLetters) : LowerCaseLetters[k] = s[i]
        THEN UpperCaseLetters[CHOOSE k \in 1..Len(LowerCaseLetters) :
                                  LowerCaseLetters[k] = s[i]]
        ELSE s[i]]

\* LogLevel[normalizedLevel]: the number of a level name; undefined, or the
\* name that the enum maps a number back to, for every other key.
LevelValueOf(normalizedLevel) ==
    IF normalizedLevel = <<"D", "E", "B", "U", "G">> THEN Some(0)
    ELSE IF normalizedLevel = <<"I", "N", "F", "O">> THEN Some(1)
    ELSE IF normalizedLevel = <<"W", "A", "R", "N">> THEN Some(2)
    ELSE IF normalizedLevel = <<"E", "R", "R", "O", "R">> THEN Some(3)
    ELSE Null

\* addLog whose store is never cut back to maxLogs.
addLogUnbounded(currentLogs, entry, cap) == <<entry>> \o currentLogs

\* addLog: newLogs = [entry, ...currentLogs], cut back to maxLogs
addLog(currentLogs, entry, cap) ==
    LET newLogs == <<entry>> \o currentLogs
    IN  IF Len(newLogs) > cap THEN SubSeq(newLogs, 1, cap) ELSE newLogs

\* debug, info, warn and error: if (this.level <= LogLevel.X) addLog('X', args)
LogCall(name) ==
    /\ LET passed == logLevel <= LogLevel(name)
           entry == [level |-> name, message |-> Len(logCalls) + 1]
       IN  /\ logCalls' = Append(logCalls, [level |-> name, passed |-> passed])
           /\ logs' = IF passed THEN addLog(logs, entry, maxLogs) ELSE logs
    /\ UNCHANGED <<logLevel, maxLogs, shouldWriteToConsole, setMaxLogsReturned>>
    /\ UNCHANGED <<exportVars, csvVars, dlVars, toastVars>>

\* debug(...args)
LogDebug ==
    /\ Len(logCalls) < MaxLogCalls
    /\ LogCall("DEBUG")

\* info(...args)
LogInfo ==
    /\ Len(logCalls) < MaxLogCalls
    /\ LogCall("INFO")

\* warn(...args)
LogWarn ==
    /\ Len(logCalls) < MaxLogCalls
    /\ LogCall("WARN")

\* error(...args)
LogError ==
    /\ Len(logCalls) < MaxLogCalls
    /\ LogCall("ERROR")

\* setLevel(level)
SetLevel ==
    /\ \E level \in 0..3 : logLevel' = level
    /\ UNCHANGED <<logs, maxLogs, shouldWriteToConsole, logCalls, setMaxLogsReturned>>
    /\ UNCHANGED <<exportVars, csvVars, dlVars, toastVars>>

\* The strings setLevelFromString is called with.
LevelStrings == {<<"w", "a", "r", "n">>, <<" ", "D", "e", "b", "u", "g", " ">>, <<"b", "a", "d", "-", "l", "e", "v", "e", "l">>, <<"0">>}

\* setLevelFromString(level)
SetLevelFromString ==
    /\ \E level \in LevelStrings :
          LET normalizedLevel == ToUpperCase(Trim(level))
              levelValue == LevelValueOf(normalizedLevel)
          IN  logLevel' = IF levelValue = Null THEN logLevel ELSE levelValue[1]
    /\ UNCHANGED <<logs, maxLogs, shouldWriteToConsole, logCalls, setMaxLogsReturned>>
    /\ UNCHANGED <<exportVars, csvVars, dlVars, toastVars>>

\* A number setMaxLogs is called with: an integer, or the number half way
\* between the integer floor and the next one.
IntegerArg(n) == [isInteger |-> TRUE, floor |-> n]

HalfAbove(n) == [isInteger |-> FALSE, floor |-> n]

MaxLogsArgs ==
    {IntegerArg(n) : n \in -1..MaxCap} \cup {HalfAbove(1)}

\* !Number.isInteger(maxLogs) || maxLogs <= 0
RejectedMaxLogs(arg) ==
    \/ ~arg.isInteger
    \/ IF arg.isInteger THEN arg.floor <= 0 ELSE arg.floor < 0

\* setMaxLogs(maxLogs)
SetMaxLogs ==
    /\ \E arg \in MaxLogsArgs :
          IF RejectedMaxLogs(arg)
          THEN /\ setMaxLogsReturned' = Some([arg |-> arg, returned |-> FALSE])
               /\ UNCHANGED <<maxLogs, logs>>
          ELSE /\ maxLogs' = arg.floor
               /\ logs' = SubSeq(logs, 1, Min(Len(logs), arg.floor))
               /\ setMaxLogsReturned' = Some([arg |-> arg, returned |-> TRUE])
    /\ UNCHANGED <<logLevel, shouldWriteToConsole, logCalls>>
    /\ UNCHANGED <<exportVars, csvVars, dlVars, toastVars>>

\* setConsoleOutput(enabled)
SetConsoleOutput ==
    /\ \E enabled \in BOOLEAN : shouldWriteToConsole' = enabled
    /\ UNCHANGED <<logLevel, logs, maxLogs, logCalls, setMaxLogsReturned>>
    /\ UNCHANGED <<exportVars, csvVars, dlVars, toastVars>>

\* clear()
ClearLogs ==
    /\ logs' = <<>>
    /\ logCalls' = <<>>
    /\ UNCHANGED <<logLevel, maxLogs, shouldWriteToConsole, setMaxLogsReturned>>
    /\ UNCHANGED <<exportVars, csvVars, dlVars, toastVars>>

LoggerNext ==
    \/ LogDebug
    \/ LogInfo
    \/ LogWarn
    \/ LogError
    \/ SetLevel
    \/ SetLevelFromString
    \/ SetMaxLogs
    \/ SetConsoleOutput
    \/ ClearLogs

LoggerInit ==
    /\ LoggerNew
    /\ payload = NullV
    /\ options = [isNumber |-> FALSE, number |-> 0, object |-> NoOptions]
    /\ pc = "idle"
    /\ queue = <<>>
    /\ bestCandidate = Null
    /\ candidateCount = 0
    /\ inspectedNodeCount = 0
    /\ result = Null
    /\ earlier = <<>>
    /\ data = <<>>
    /\ csvOptions = Null
    /\ csvPc = "idle"
    /\ flatData = <<>>
    /\ headers = <<>>
    /\ csvRows = <<>>
    /\ csvResult = Null
    /\ DownloadIdle
    /\ ToastIdle

LoggerSpec == LoggerInit /\ [][LoggerNext]_vars

(***************************************************************************)
(* The payload as the properties speak of it: its nodes, their paths and   *)
(* depths, read off the payload without a queue.  N is the sequence of the *)
(* nodes of the payload, PayloadNodes; sets of nodes are sets of indices   *)
(* of N.                                                                   *)
(***************************************************************************)
Done == pc = "done"

\* The nodes under a value in depth-first order, the value first; parent
\* is the path of the node's parent.
RECURSIVE NodesUnder(_, _, _, _)
NodesUnder(value, path, depth, parent) ==
    LET RECURSIVE Below(_)
        Below(i) ==
            IF i > Len(value.entries) THEN <<>>
            ELSE NodesUnder(value.entries[i].value,
                            ChildPath(path, value.entries[i].key),
                            depth + 1,
                            path) \o Below(i + 1)
    IN  <<[value |-> value, path |-> path, depth |-> depth, parent |-> parent]>>
        \o Below(1)

\* Every node of the payload that object keys lead to.
PayloadNodes ==
    IF payload.kind = "null" THEN <<>>
    ELSE NodesUnder(payload, RootPath, 0, <<>>)

\* token occurs in path, whatever the case of the letters.
HasToken(path, token) == includes(toLowerCase(path), toLowerCase(token))

NoExcludedToken(path) ==
    \A i \in 1..Len(opts.excludedPathTokens) :
        ~HasToken(path, opts.excludedPathTokens[i])

AllRequiredTokens(path) ==
    \A i \in 1..Len(opts.requirePathTokens) :
        HasToken(path, opts.requirePathTokens[i])

\* An element that counts as a row: a plain object, with a key unless empty
\* objects are allowed.
CountsAsRow(e) ==
    /\ e.kind = "object"
    /\ opts.allowEmptyObjectRows \/ Len(e.entries) >= 1

ObjectRows(value) == SelectSeq(value.elems, CountsAsRow)

\* An array within maxDepth whose path passes the token filters.
FilteredArray(n) ==
    /\ n.value.kind = "array"
    /\ n.depth <= opts.maxDepth
    /\ NoExcludedToken(n.path)
    /\ AllRequiredTokens(n.path)

\* A qualifying array: filtered, not empty, with object rows, minRows of
\* them at least.
Qualifying(n) ==
    /\ FilteredArray(n)
    /\ Len(ObjectRows(n.value)) >= 1
    /\ Len(ObjectRows(n.value)) >= opts.minRows

\* The qualifying arrays of the payload.
QualifyingIndices(N) == {i \in 1..Len(N) : Qualifying(N[i])}

\* The empty arrays within maxDepth that pass the filters.
EmptyFilteredIndices(N) ==
    {i \in 1..Len(N) : FilteredArray(N[i]) /\ N[i].value.elems = <<>>}

ScoreOf(n) == scoreCandidate(n.path, n.depth, ObjectRows(n.value), opts)

\* a comes before b in breadth-first order, a at index i and b at index j of
\* a depth-first sequence: shallower first, then the order of the keys.
BfsBefore(a, i, b, j) == a.depth < b.depth \/ (a.depth = b.depth /\ i < j)

\* i is the best of the arrays S: of maximal score among them, and before
\* every other one of that score.
IsBest(N, S, i) ==
    /\ i \in S
    /\ \A j \in S :
          /\ ScoreOf(N[i]) >= ScoreOf(N[j])
          /\ (j # i /\ ScoreOf(N[j]) = ScoreOf(N[i]))
                => BfsBefore(N[i], i, N[j], j)

\* The node is dequeued by a traversal that is not cut short: it is the
\* root, or its parent is within maxDepth and has no excluded token in its
\* path (so neither has any ancestor further up).
Dequeued(n) ==
    \/ n.depth = 0
    \/ n.depth - 1 <= opts.maxDepth /\ NoExcludedToken(n.parent)

\* The number of dequeued nodes up to and including N[i], in the order of
\* the traversal.
DequeuePosition(N, i) ==
    1 + Cardinality({j \in 1..Len(N) :
                        Dequeued(N[j]) /\ BfsBefore(N[j], j, N[i], i)})

\* The number of arrays of Q up to and including N[i].
QualifyingRank(N, Q, i) ==
    1 + Cardinality({j \in Q : BfsBefore(N[j], j, N[i], i)})

\* The qualifying arrays that are scored under the cap: the first
\* maxCandidates of them.
ScoredIndices(N, Q) ==
    {i \in Q : QualifyingRank(N, Q, i) <= opts.maxCandidates}

\* The arrays at the path of candidate c.
SourceIndices(N, c) ==
    {i \in 1..Len(N) :
        /\ N[i].path = c.path
        /\ N[i].depth = c.depth
        /\ N[i].value.kind = "array"}

\* The nodes a queue entry stands for.
NodeIndices(N, entry) ==
    {i \in 1..Len(N) :
        /\ N[i].path = entry.path
        /\ N[i].depth = entry.depth
        /\ N[i].value = entry.value}

\* Some element of the array is an object, and every object in it is empty.
OnlyEmptyObjects(value) ==
    /\ \E k \in 1..Len(value.elems) : value.elems[k].kind = "object"
    /\ \A k \in 1..Len(value.elems) :
          value.elems[k].kind = "object" => Len(value.elems[k].entries) = 0

\* No maxCandidates cap is in effect: every array of Q can be scored.
NoCandidateCap(Q) == Cardinality(Q) <= opts.maxCandidates

\* No maxInspectedNodes cap was asked for.
NoNodeCap == "maxInspectedNodes" \notin normalizedOptions(options).given

(***************************************************************************)
(* C1.  With no cap in effect, the returned candidate scores at least as   *)
(* much as every qualifying array of the payload, and among the qualifying *)
(* arrays of maximal score it is the first in breadth-first order          *)
(* (shallower first, then the order of the keys).                          *)
(***************************************************************************)
C1_BestScoreFirstInBfsOrder ==
    LET N == PayloadNodes
        Q == QualifyingIndices(N)
    IN  (Done /\ NoNodeCap /\ NoCandidateCap(Q) /\ Q # {}) =>
            /\ result # Null
            /\ \A j \in Q : result[1].score >= ScoreOf(N[j])
            /\ \E i \in Q :
                  /\ IsBest(N, Q, i)
                  /\ result[1].path = N[i].path
                  /\ result[1].depth = N[i].depth
                  /\ result[1].score = ScoreOf(N[i])
                  /\ result[1].rows = ObjectRows(N[i].value)

\* Two qualifying arrays tie for the maximal score, the deeper one comes
\* first in depth-first order, and the shallower one is returned.
C1_Witness ==
    LET N == PayloadNodes
        Q == QualifyingIndices(N)
    IN  /\ Done /\ NoNodeCap /\ NoCandidateCap(Q)
        /\ result # Null
        /\ \E i, j \in Q :
              /\ i < j
              /\ N[j].depth < N[i].depth
              /\ ScoreOf(N[i]) = ScoreOf(N[j])
              /\ IsBest(N, Q, j)
              /\ result[1].path = N[j].path

(***************************************************************************)
(* C2.  For maxCandidates >= 0: never more than maxCandidates arrays are   *)
(* scored (candidateCount is the number of the first maxCandidates         *)
(* qualifying arrays dequeued so far).  When the payload has more          *)
(* qualifying arrays than that, the traversal ends with the node that is   *)
(* the (maxCandidates + 1)-th qualifying array, nothing after it is        *)
(* inspected, and the result is the best of the first maxCandidates        *)
(* qualifying arrays (with maxCandidates 1, the first qualifying array in  *)
(* breadth-first order; with 0, no array with rows).                       *)
(***************************************************************************)
C2_MaxCandidatesStopsTraversal ==
    LET N == PayloadNodes
        Q == QualifyingIndices(N)
        S == ScoredIndices(N, Q)
    IN  opts.maxCandidates >= 0 =>
            /\ candidateCount <= opts.maxCandidates
            /\ candidateCount = Cardinality({i \in S :
                     pc # "start" /\ DequeuePosition(N, i) <= inspectedNodeCount})
            /\ bestCandidate # Null =>
                  bestCandidate[1].candidateCount <= opts.maxCandidates
            /\ pc = "exit" => Cardinality(Q) > opts.maxCandidates
            /\ (Done /\ Cardinality(Q) > opts.maxCandidates) =>
                  /\ \E i \in Q :
                        /\ QualifyingRank(N, Q, i) = opts.maxCandidates + 1
                        /\ inspectedNodeCount = DequeuePosition(N, i)
                  /\ candidateCount = opts.maxCandidates
                  /\ IF opts.maxCandidates = 0
                     THEN result = Null \/ result[1].rows = <<>>
                     ELSE /\ result # Null
                          /\ result[1].candidateCount <= opts.maxCandidates
                          /\ \E i \in S :
                                /\ IsBest(N, S, i)
                                /\ result[1].path = N[i].path
                                /\ result[1].rows = ObjectRows(N[i].value)
                                /\ result[1].score = ScoreOf(N[i])
                                /\ opts.maxCandidates = 1 =>
                                      QualifyingRank(N, Q, i) = 1

\* maxCandidates is 1, two sibling arrays qualify, the second would score
\* more, and the first is returned with candidateCount 1.
C2_Witness ==
    LET N == PayloadNodes
        Q == QualifyingIndices(N)
    IN  /\ Done
        /\ opts.maxCandidates = 1
        /\ result # Null
        /\ result[1].candidateCount = 1
        /\ \E i, j \in Q :
              /\ i < j
              /\ N[i].parent = N[j].parent
              /\ ScoreOf(N[j]) > ScoreOf(N[i])
              /\ result[1].path = N[i].path

(***************************************************************************)
(* C3.  When maxInspectedNodes is given, no array is returned that was     *)
(* reached only after that many nodes had been visited: the returned       *)
(* candidate was found within the first maxInspectedNodes nodes.  The      *)
(* code never reads maxInspectedNodes, and the traversal runs on.          *)
(***************************************************************************)
C3_NodeCapRespected ==
    (Done /\ ~NoNodeCap /\ result # Null) =>
        result[1].inspectedNodeCount <= normalizedOptions(options).maxInspectedNodes

(***************************************************************************)
(* C4.  Every row of a recorded or returned candidate is a plain object;   *)
(* the rows are the elements of the source array that count as rows, in    *)
(* the order of the array.  Without allowEmptyObjectRows every row has a   *)
(* key and the source array is not one whose only objects are empty; with  *)
(* allowEmptyObjectRows an array whose only objects are empty, the only    *)
(* array the filters and caps leave, is returned with them as rows.        *)
(***************************************************************************)
RowsCameFromSource(N, c) ==
    /\ \A k \in 1..Len(c.rows) :
          /\ c.rows[k].kind = "object"
          /\ ~opts.allowEmptyObjectRows => Len(c.rows[k].entries) >= 1
    /\ \E i \in SourceIndices(N, c) :
          /\ c.rows = ObjectRows(N[i].value)
          /\ c.rows = <<>> => N[i].value.elems = <<>>
          /\ ~opts.allowEmptyObjectRows => ~OnlyEmptyObjects(N[i].value)

C4_RowsArePlainObjects ==
    LET N == PayloadNodes
        Q == QualifyingIndices(N)
    IN  /\ bestCandidate # Null => RowsCameFromSource(N, bestCandidate[1])
        /\ (Done /\ result # Null) => RowsCameFromSource(N, result[1])
        /\ (/\ Done
            /\ opts.allowEmptyObjectRows
            /\ NoNodeCap
            /\ NoCandidateCap(Q)
            /\ Cardinality(Q) = 1
            /\ \A i \in Q : OnlyEmptyObjects(N[i].value)) =>
                /\ result # Null
                /\ \A i \in Q : result[1].path = N[i].path
                /\ Len(result[1].rows) >= 1
                /\ \A k \in 1..Len(result[1].rows) :
                      result[1].rows[k] = EmptyObjectV

\* An array of a keyed object, an empty object, a string and another keyed
\* object is returned: the two keyed objects in the order of the array.
C4_Witness ==
    LET N == PayloadNodes
    IN  /\ Done
        /\ result # Null
        /\ ~opts.allowEmptyObjectRows
        /\ Len(result[1].rows) = 2
        /\ result[1].rows[1] # result[1].rows[2]
        /\ \E i \in SourceIndices(N, result[1]) :
              /\ Len(N[i].value.elems) = 4
              /\ N[i].value.elems[1] = result[1].rows[1]
              /\ N[i].value.elems[2] = EmptyObjectV
              /\ N[i].value.elems[3] = ScalarV
              /\ N[i].value.elems[4] = result[1].rows[2]

(***************************************************************************)
(* C5.  A node whose path contains an excluded token, whatever the case of *)
(* the letters, is not expanded: every node in the queue has a parent      *)
(* whose path contains no excluded token.  Nor is it evaluated: the path   *)
(* of a recorded or returned candidate contains no excluded token.         *)
(***************************************************************************)
C5_ExcludedSubtreesNeverReached ==
    LET N == PayloadNodes
    IN  /\ \A k \in 1..Len(queue) :
              /\ NodeIndices(N, queue[k]) # {}
              /\ \A i \in NodeIndices(N, queue[k]) :
                    N[i].depth = 0 \/ NoExcludedToken(N[i].parent)
        /\ bestCandidate # Null => NoExcludedToken(bestCandidate[1].path)
        /\ (Done /\ result # Null) => NoExcludedToken(result[1].path)

\* An array with rows lies below an object whose key holds an excluded
\* token in other letter case, it would score more than the array that is
\* returned.
C5_Witness ==
    LET N == PayloadNodes
    IN  /\ Done
        /\ result # Null
        /\ \E i \in 1..Len(N) :
              /\ N[i].value.kind = "array"
              /\ Len(ObjectRows(N[i].value)) >= 1
              /\ N[i].depth >= 2
              /\ ~NoExcludedToken(N[i].parent)
              /\ ~containsExcludedTokensCaseSensitive(N[i].parent,
                                                      opts.excludedPathTokens)
              /\ ScoreOf(N[i]) > result[1].score

(***************************************************************************)
(* C6.  With requirePathTokens not empty, the path of every recorded or    *)
(* returned candidate, one of no rows included, contains every required    *)
(* token, whatever the case of the letters; and a qualifying array below   *)
(* an object whose path lacks a required token is still found, no cap      *)
(* being in effect.                                                        *)
(***************************************************************************)
C6_RequiredTokensInCandidatePath ==
    LET N == PayloadNodes
        Q == QualifyingIndices(N)
    IN  Len(opts.requirePathTokens) > 0 =>
            /\ bestCandidate # Null => AllRequiredTokens(bestCandidate[1].path)
            /\ (Done /\ result # Null) => AllRequiredTokens(result[1].path)
            /\ (/\ Done /\ NoNodeCap /\ NoCandidateCap(Q)
                /\ \E i \in Q : ~AllRequiredTokens(N[i].parent)) =>
                   /\ result # Null
                   /\ Len(result[1].rows) >= 1

\* A candidate of no rows is returned from an empty array whose path holds
\* the required tokens, below an object whose path lacks one, while an
\* array with rows whose path lacks one is passed over.
C6_Witness ==
    LET N == PayloadNodes
    IN  /\ Done
        /\ Len(opts.requirePathTokens) > 0
        /\ result # Null
        /\ result[1].rows = <<>>
        /\ \E i \in SourceIndices(N, result[1]) :
              ~AllRequiredTokens(N[i].parent)
        /\ \E i \in 1..Len(N) :
              /\ N[i].value.kind = "array"
              /\ Len(ObjectRows(N[i].value)) >= 1
              /\ ~AllRequiredTokens(N[i].path)

(***************************************************************************)
(* C7.  Every recorded or returned candidate has at least minRows rows;    *)
(* with minRows > 0 no candidate of no rows is returned, and the result is *)
(* null when no array of the payload has minRows object rows.              *)
(***************************************************************************)
C7_AtLeastMinRows ==
    LET N == PayloadNodes
    IN  /\ bestCandidate # Null => Len(bestCandidate[1].rows) >= opts.minRows
        /\ (Done /\ result # Null) => Len(result[1].rows) >= opts.minRows
        /\ (Done /\ result # Null /\ opts.minRows > 0) => result[1].rows # <<>>
        /\ (/\ Done
            /\ opts.minRows > 0
            /\ \A i \in 1..Len(N) :
                  N[i].value.kind = "array" =>
                      Len(ObjectRows(N[i].value)) < opts.minRows) =>
                result = Null

\* minRows is 2, the payload has one array, of one row, and null is
\* returned.
C7_Witness ==
    LET N == PayloadNodes
    IN  /\ Done
        /\ opts.minRows = 2
        /\ result = Null
        /\ \E i \in 1..Len(N) :
              /\ FilteredArray(N[i])
              /\ Dequeued(N[i])
              /\ Len(ObjectRows(N[i].value)) = 1
              /\ \A j \in 1..Len(N) : N[j].value.kind = "array" => j = i

(***************************************************************************)
(* C8.  A candidate of no rows is recorded only with minRows 0 and before  *)
(* any array was scored: it has score 0 and candidateCount 0 and comes     *)
(* from the first empty array that passes the filters.  A candidate with   *)
(* rows has a score above 0.  Once an array has been scored the best       *)
(* candidate has rows, so a result of no rows is returned only when no     *)
(* array was scored.                                                       *)
(***************************************************************************)
EmptyOnlyUnscored(N, c) ==
    IF c.rows = <<>>
    THEN /\ opts.minRows = 0
         /\ c.score = 0
         /\ c.candidateCount = 0
         /\ \E i \in EmptyFilteredIndices(N) :
               /\ N[i].path = c.path
               /\ \A j \in EmptyFilteredIndices(N) \ {i} :
                     BfsBefore(N[i], i, N[j], j)
    ELSE /\ c.score > 0
         /\ c.candidateCount >= 1

C8_EmptyArrayOnlyUntilScored ==
    LET N == PayloadNodes
    IN  /\ bestCandidate # Null => EmptyOnlyUnscored(N, bestCandidate[1])
        /\ candidateCount >= 1 =>
              bestCandidate # Null /\ bestCandidate[1].rows # <<>>
        /\ (Done /\ result # Null) => EmptyOnlyUnscored(N, result[1])
        /\ (Done /\ result # Null /\ result[1].rows = <<>>) => candidateCount = 0

\* An empty array was dequeued before an array with rows, which was scored
\* and is the best candidate.
C8_Witness ==
    LET N == PayloadNodes
    IN  /\ opts.minRows = 0
        /\ bestCandidate # Null
        /\ bestCandidate[1].rows # <<>>
        /\ bestCandidate[1].candidateCount = 1
        /\ \E i \in EmptyFilteredIndices(N) :
              /\ Dequeued(N[i])
              /\ \E j \in SourceIndices(N, bestCandidate[1]) :
                    BfsBefore(N[i], i, N[j], j)

(***************************************************************************)
(* C9.  No recorded or returned candidate lies deeper than maxDepth, and   *)
(* no node deeper than maxDepth is expanded: every node in the queue is at *)
(* depth maxDepth + 1 at most.  With a negative maxDepth nothing is        *)
(* recorded or scored and null is returned; and in every state before the  *)
(* return the call has a next step.                                        *)
(***************************************************************************)
\* The guard of some action holds: the call is at its start, has left the
\* loop or emptied the queue, or the loop body has a way for the node.
HasNextStep ==
    \/ pc = "start"
    \/ pc = "exit"
    \/ pc = "loop" /\ queue = <<>>
    \/ \E way \in {"tooDeep", "excluded", "missingRequired", "emptyArray",
                   "noObjectEntries", "tooFewRows", "break", "scored",
                   "object", "other"} : Takes(way)

C9_NothingBelowMaxDepth ==
    /\ bestCandidate # Null => bestCandidate[1].depth <= opts.maxDepth
    /\ (Done /\ result # Null) => result[1].depth <= opts.maxDepth
    /\ \A k \in 1..Len(queue) : queue[k].depth <= opts.maxDepth + 1
    /\ opts.maxDepth < 0 =>
          /\ bestCandidate = Null
          /\ candidateCount = 0
          /\ Len(queue) <= 1
          /\ Done => result = Null
    /\ ~Done => HasNextStep

\* maxDepth is negative, the payload is an array of rows, and null is
\* returned.
C9_Witness ==
    /\ Done
    /\ opts.maxDepth < 0
    /\ payload.kind = "array"
    /\ Len(ObjectRows(payload)) >= 1
    /\ inspectedNodeCount = 1
    /\ result = Null

(***************************************************************************)
(* C10.  The call with a number n returns what the call with the options   *)
(* object { maxDepth: n } returns.                                         *)
(***************************************************************************)
\* The options object { maxDepth: n } as the second argument.
MaxDepthOnly(n) ==
    [isNumber |-> FALSE, number |-> 0, object |-> With(NoOptions, "maxDepth", n)]

C10_NumberIsMaxDepthOption ==
    (Done /\ options.isNumber) =>
        result = findExportableRows(payload, MaxDepthOnly(options.number))

\* The call with the number 1 returns null for a payload whose only array
\* is at depth 2, which the call with no options returns.
C10_Witness ==
    /\ Done
    /\ options.isNumber
    /\ options.number = 1
    /\ result = Null
    /\ findExportableRows(payload, [MaxDepthOnly(0) EXCEPT !.object = NoOptions]) # Null

(***************************************************************************)
(* C11.  A call returns what every earlier call with the same payload and  *)
(* the same options returned: the same rows, path, depth, score,           *)
(* candidateCount and inspectedNodeCount, or null again.  Nothing the      *)
(* earlier calls left in the queue, the best candidate or the counters     *)
(* reaches the result.                                                     *)
(***************************************************************************)
C11_SameResultOnEveryCall ==
    Done => \A k \in 1..Len(earlier) : earlier[k] = result

\* A repeated call has returned a candidate found after several nodes, as
\* the call before did.
C11_Witness ==
    /\ Done
    /\ Len(earlier) >= 1
    /\ result # Null
    /\ result[1].candidateCount >= 1
    /\ result[1].inspectedNodeCount >= 2
    /\ inspectedNodeCount > result[1].inspectedNodeCount

(***************************************************************************)
(* C12.  The score of every candidate with rows is rowScore + depthScore + *)
(* tokenScore: rowScore is min(2 * rows, 40) with preferLargeDatasets and  *)
(* min(rows, 20) without, depthScore is max(0, 20 - 5 * depth) with        *)
(* preferShallow and max(0, 5 - floor(depth / 2)) without, tokenScore is 2 *)
(* for each preferred token that occurs in the path, whatever the case of  *)
(* the letters.  So of two qualifying arrays of equal depth and row count  *)
(* the one with fewer preferred tokens is not returned, no cap being in    *)
(* effect; and one row at depth 2 scores more than four rows at depth 4    *)
(* with preferShallow and without preferLargeDatasets, and less the other  *)
(* way round.                                                              *)
(***************************************************************************)
\* The preferred tokens that occur in the path, as indices of the list.
MatchedTokens(path) ==
    {i \in 1..Len(opts.preferredPathTokens) :
        HasToken(path, opts.preferredPathTokens[i])}

\* The score of the claim for an array of rowCount rows at the path and depth.
StatedScore(path, depth, rowCount, preferShallow, preferLargeDatasets) ==
    (IF preferLargeDatasets
     THEN (IF 2 * rowCount < 40 THEN 2 * rowCount ELSE 40)
     ELSE (IF rowCount < 20 THEN rowCount ELSE 20))
    + (IF preferShallow
       THEN (IF 20 - 5 * depth > 0 THEN 20 - 5 * depth ELSE 0)
       ELSE (IF 5 - (depth \div 2) > 0 THEN 5 - (depth \div 2) ELSE 0))
    + 2 * Cardinality(MatchedTokens(path))

ScoreIsStated(c) ==
    c.rows # <<>> =>
        c.score = StatedScore(c.path, c.depth, Len(c.rows),
                              opts.preferShallow, opts.preferLargeDatasets)

\* What scoreCandidate gives n rows at the depth, at the path of the root.
ScoreOfRows(n, depth, preferShallow, preferLargeDatasets) ==
    scoreCandidate(RootPath, depth, [k \in 1..n |-> RowV],
                   [opts EXCEPT !.preferShallow = preferShallow,
                                !.preferLargeDatasets = preferLargeDatasets])

C12_ScoreIsSumOfThreeParts ==
    LET N == PayloadNodes
        Q == QualifyingIndices(N)
    IN  /\ bestCandidate # Null => ScoreIsStated(bestCandidate[1])
        /\ (Done /\ result # Null) => ScoreIsStated(result[1])
        /\ (Done /\ NoNodeCap /\ NoCandidateCap(Q)) =>
              \A i, j \in Q :
                  (/\ N[i].depth = N[j].depth
                   /\ Len(ObjectRows(N[i].value)) = Len(ObjectRows(N[j].value))
                   /\ Cardinality(MatchedTokens(N[i].path))
                         > Cardinality(MatchedTokens(N[j].path)))
                  => /\ result # Null
                     /\ result[1].path # N[j].path
        /\ Done =>
              /\ ScoreOfRows(1, 2, TRUE, FALSE) > ScoreOfRows(4, 4, TRUE, FALSE)
              /\ ScoreOfRows(1, 2, FALSE, TRUE) < ScoreOfRows(4, 4, FALSE, TRUE)

\* Two sibling arrays of equal row count qualify, the second one in key
\* order holds a preferred token more, and it is returned.
C12_Witness ==
    LET N == PayloadNodes
        Q == QualifyingIndices(N)
    IN  /\ Done /\ NoNodeCap /\ NoCandidateCap(Q)
        /\ result # Null
        /\ \E i, j \in Q :
              /\ i < j
              /\ N[i].depth = N[j].depth
              /\ Len(ObjectRows(N[i].value)) = Len(ObjectRows(N[j].value))
              /\ Cardinality(MatchedTokens(N[j].path))
                    > Cardinality(MatchedTokens(N[i].path))
              /\ result[1].path = N[j].path
              /\ result[1].score = ScoreOf(N[i]) + 2

(***************************************************************************)
(* C13.  When minObjectKeys and minObjectRatio are given, every row of the *)
(* returned candidate has at least minObjectKeys keys, and the rows are at *)
(* least the fraction minObjectRatio of the elements of the source array.  *)
(* The code reads neither option: an element with one key counts as a row  *)
(* and an array with too few rows among its elements is returned.          *)
(***************************************************************************)
C13_KeyAndRatioThresholdsRespected ==
    LET n == normalizedOptions(options)
    IN  (Done /\ result # Null /\ {"minObjectKeys", "minObjectRatio"} \subseteq n.given) =>
            LET c == result[1]
                N == PayloadNodes
            IN  /\ \A k \in 1..Len(c.rows) :
                      Len(c.rows[k].entries) >= n.minObjectKeys
                /\ \A i \in SourceIndices(N, c) :
                      Len(c.rows) * n.minObjectRatio[2]
                          >= n.minObjectRatio[1] * Len(N[i].value.elems)

(***************************************************************************)
(* C14.  The depth of a recorded or returned candidate is the number of    *)
(* object keys on the route from the root of the payload to its array, and *)
(* its path is root followed by a dot and the key for each key of the      *)
(* route in order: an array two keys down has depth 2 and the path         *)
(* root.<first key>.<second key>, a payload that is an array has the path  *)
(* root and depth 0.                                                       *)
(***************************************************************************)
\* The sequences of keys a payload can hold on one route.
Routes == UNION {[1..n -> Keys] : n \in 0..MaxNodes}

\* The value the route of keys leads to from value: <<v>>, or <<>> when
\* there is none.
RECURSIVE RouteValue(_, _)
RouteValue(value, route) ==
    IF route = <<>> THEN <<value>>
    ELSE LET at == {i \in 1..Len(value.entries) :
                       value.entries[i].key = Head(route)}
         IN  IF value.kind # "object" \/ at = {} THEN <<>>
             ELSE RouteValue(value.entries[CHOOSE i \in at : TRUE].value,
                             Tail(route))

\* root, then a dot and the key for every key of the route.
RECURSIVE RoutePath(_)
RoutePath(route) ==
    IF route = <<>> THEN <<"r", "o", "o", "t">>
    ELSE RoutePath(SubSeq(route, 1, Len(route) - 1))
            \o <<".">> \o route[Len(route)]

OnRoute(c) ==
    \E route \in Routes :
        /\ RouteValue(payload, route) # <<>>
        /\ RouteValue(payload, route)[1].kind = "array"
        /\ c.path = RoutePath(route)
        /\ c.depth = Len(route)

C14_PathAndDepthFollowRoute ==
    /\ bestCandidate # Null => OnRoute(bestCandidate[1])
    /\ (Done /\ result # Null) => OnRoute(result[1])
    /\ (Done /\ result # Null /\ payload.kind = "array") =>
          /\ result[1].path = <<"r", "o", "o", "t">>
          /\ result[1].depth = 0

\* An array under two different keys is returned, with depth 2.
C14_Witness ==
    /\ Done
    /\ result # Null
    /\ result[1].depth = 2
    /\ result[1].rows # <<>>
    /\ \E k1, k2 \in Keys :
          /\ k1 # k2
          /\ result[1].path = RootPath \o <<".">> \o k1 \o <<".">> \o k2
          /\ RouteValue(payload, <<k2, k1>>) = <<>>

(***************************************************************************)
(* The CSV text as the properties speak of it: its records, their fields   *)
(* and the text of a field, read back from the characters.                 *)
(***************************************************************************)
CsvDone == csvPc = "done"

\* The records of a CSV text: the text between the line terminators that
\* stand outside double quotes.
RecordsOf(text, terminator) ==
    LET RECURSIVE Scan(_, _, _, _)
        Scan(i, quoted, line, records) ==
            IF i > Len(text) THEN Append(records, line)
            ELSE IF text[i] = DQ
            THEN Scan(i + 1, ~quoted, Append(line, DQ), records)
            ELSE IF /\ ~quoted
                    /\ i + Len(terminator) - 1 <= Len(text)
                    /\ SubSeq(text, i, i + Len(terminator) - 1) = terminator
            THEN Scan(i + Len(terminator), FALSE, <<>>, Append(records, line))
            ELSE Scan(i + 1, quoted, Append(line, text[i]), records)
    IN  Scan(1, FALSE, <<>>, <<>>)

\* The data rows of a CSV text: its records but the header line.
DataRecordsOf(text, terminator) == Tail(RecordsOf(text, terminator))

(***************************************************************************)
(* C15.  rowCount is the number of data rows of csv, the header line not   *)
(* counted, and rowCount + skippedRowCount is the number of rows passed to *)
(* the conversion.  The result of the code has no skippedRowCount.         *)
(***************************************************************************)
C15_RowCountsAddUp ==
    CsvDone =>
        LET r == csvResult[1]
        IN  /\ r.rowCount = Len(DataRecordsOf(r.csv, csvOpts.lineTerminator))
            /\ "skippedRowCount" \in DOMAIN r
            /\ r.rowCount + r.skippedRowCount = Len(data)

(***************************************************************************)
(* C16.  With maxRows = m and more than m rows, only the first m rows are  *)
(* emitted, rowCount is m and truncatedRowCount is the number of rows left *)
(* out, whatever maxCellLength is; truncatedRowCount is 0 when no row is   *)
(* left out.  The code reads no maxRows and returns no truncatedRowCount.  *)
(***************************************************************************)
\* The value of maxRows the caller gave, or none.
GivenMaxRows ==
    IF csvOptions # Null /\ "maxRows" \in csvOptions[1].given
    THEN Some(csvOptions[1].maxRows)
    ELSE Null

C16_RowCapCounted ==
    CsvDone =>
        LET r == csvResult[1]
            n == Len(data)
            emitted == IF GivenMaxRows # Null /\ n > GivenMaxRows[1]
                       THEN GivenMaxRows[1]
                       ELSE n
        IN  /\ r.rowCount = emitted
            /\ Len(DataRecordsOf(r.csv, csvOpts.lineTerminator)) = emitted
            /\ data # <<>> =>
                  /\ "truncatedRowCount" \in DOMAIN r
                  /\ r.truncatedRowCount = n - emitted

(***************************************************************************)
(* C17.  The headers of a conversion result hold no string twice, whether  *)
(* they were discovered from the rows or given by the headers option.  The *)
(* code returns the headers option as it was given.                        *)
(***************************************************************************)
C17_HeadersUnique ==
    CsvDone =>
        LET hs == csvResult[1].headers
        IN  \A i, j \in 1..Len(hs) : hs[i] = hs[j] => i = j

\* The flattened keys of an object in the order of its properties: the keys
\* on the way to every value that is not a plain object, joined by dots.
RECURSIVE FlatKeys(_, _)
FlatKeys(obj, prefix) ==
    LET RECURSIVE From(_)
        From(i) ==
            IF i > Len(obj.entries) THEN <<>>
            ELSE LET e == obj.entries[i]
                     key == IF prefix = <<>> THEN e.key ELSE prefix \o <<".">> \o e.key
                 IN  (IF e.value.kind = "object"
                      THEN FlatKeys(e.value, key)
                      ELSE <<key>>) \o From(i + 1)
    IN  From(1)

\* The flattened keys of all rows: row after row.
RECURSIVE KeysOfRows(_)
KeysOfRows(rows) ==
    IF rows = <<>> THEN <<>>
    ELSE FlatKeys(rows[1], <<>>) \o KeysOfRows(Tail(rows))

\* x comes before y in the dictionary.
LexLess(x, y) ==
    \E p \in 0..Len(x) :
        /\ p <= Len(y)
        /\ SubSeq(x, 1, p) = SubSeq(y, 1, p)
        /\ \/ p = Len(x) /\ p < Len(y)
           \/ p < Len(x) /\ p < Len(y) /\ Rank(x[p + 1]) < Rank(y[p + 1])

\* The place where the key is first seen in the sequence of keys.
FirstSeen(keys, key) ==
    CHOOSE i \in 1..Len(keys) :
        /\ keys[i] = key
        /\ \A k \in 1..(i - 1) : keys[k] # key

\* The caller gave a headers option that is not empty.
HeadersGiven ==
    /\ csvOptions # Null
    /\ "headers" \in csvOptions[1].given
    /\ csvOptions[1].headers # <<>>

SortHeadersSet ==
    /\ csvOptions # Null
    /\ "sortHeaders" \in csvOptions[1].given
    /\ csvOptions[1].sortHeaders

FieldsOf(record, delimiter) == RecordsOf(record, delimiter)

\* The text of a field: of a field in double quotes the text between them
\* with every doubled double quote single, of another field the field.
Unquote(field) ==
    LET RECURSIVE Single(_, _)
        Single(s, i) ==
            IF i > Len(s) THEN <<>>
            ELSE IF s[i] = DQ /\ i < Len(s) /\ s[i + 1] = DQ
            THEN <<DQ>> \o Single(s, i + 2)
            ELSE <<s[i]>> \o Single(s, i + 1)
    IN  IF Len(field) >= 2 /\ field[1] = DQ /\ field[Len(field)] = DQ
        THEN Single(SubSeq(field, 2, Len(field) - 1), 1)
        ELSE field

\* The record of the header line, without the byte order mark.
HeaderRecord(text, terminator) ==
    LET first == RecordsOf(text, terminator)[1]
    IN  IF first # <<>> /\ first[1] = BOM THEN Tail(first) ELSE first

(***************************************************************************)
(* C19.  With a headers option that is not empty the columns are that      *)
(* sequence in its order, whatever sortHeaders and the keys of the rows    *)
(* are: the headers of the result are the option, every data row has one   *)
(* cell for every header, and the cell of a header the row has no value    *)
(* for is empty.                                                           *)
(***************************************************************************)
C19_HeadersOptionDecidesColumns ==
    (CsvDone /\ HeadersGiven /\ data # <<>>) =>
        LET given == csvOptions[1].headers
            r == csvResult[1]
            rows == DataRecordsOf(r.csv, csvOpts.lineTerminator)
        IN  /\ r.headers = given
            /\ Len(rows) = Len(data)
            /\ \A i \in 1..Len(rows) :
                  LET cells == FieldsOf(rows[i], csvOpts.delimiter)
                      keys == FlatKeys(data[i], <<>>)
                  IN  /\ Len(cells) = Len(given)
                      /\ \A j \in 1..Len(given) :
                            (\A k \in 1..Len(keys) : keys[k] # given[j])
                                => cells[j] = <<>>

\* sortHeaders is set and the headers option is not in sorted order; a row
\* has a key that is no header and lacks a header, another has a value for
\* a header.
C19_Witness ==
    /\ CsvDone
    /\ HeadersGiven
    /\ SortHeadersSet
    /\ LET given == csvOptions[1].headers
           rows == DataRecordsOf(csvResult[1].csv, csvOpts.lineTerminator)
       IN  /\ \E i, j \in 1..Len(given) : i < j /\ LexLess(given[j], given[i])
           /\ \E i \in 1..Len(data) :
                 LET keys == FlatKeys(data[i], <<>>)
                 IN  /\ \E k \in 1..Len(keys) :
                           \A j \in 1..Len(given) : given[j] # keys[k]
                     /\ \E j \in 1..Len(given) :
                           \A k \in 1..Len(keys) : given[j] # keys[k]
           /\ \E i \in 1..Len(rows) :
                 \E j \in 1..Len(given) :
                     FieldsOf(rows[i], csvOpts.delimiter)[j] # <<>>

\* The text of the cell of row i under header j before it is escaped.
CellText(i, j) ==
    sanitizeExcelFormula(
        serializeCellValue(Get(flatData[i], csvResult[1].headers[j]), csvOpts),
        csvOpts.excelSafeMode)

\* The text holds the delimiter, a double quote or a line break.
NeedsQuotes(text) ==
    \/ includes(text, csvOpts.delimiter)
    \/ \E k \in 1..Len(text) : text[k] \in {DQ, LF, CR}

DoubleQuoteCount(text) == Cardinality({k \in 1..Len(text) : text[k] = DQ})

\* The field is the text in double quotes with every double quote of the
\* text doubled.
IsQuoted(field, text) ==
    /\ Len(field) >= 2
    /\ field[1] = DQ
    /\ field[Len(field)] = DQ
    /\ Len(field) = Len(text) + 2 + DoubleQuoteCount(text)
    /\ DoubleQuoteCount(field) = 2 + 2 * DoubleQuoteCount(text)

\* The cells of data row i as they stand in csv are quoted exactly when
\* their text needs it, and unquoting gives the text back.
CellsQuotedWhenNeeded(i) ==
    LET r == csvResult[1]
        rows == DataRecordsOf(r.csv, csvOpts.lineTerminator)
        cells == FieldsOf(rows[i], csvOpts.delimiter)
    IN  \A j \in 1..Len(r.headers) :
            /\ j <= Len(cells)
            /\ LET text == CellText(i, j)
               IN  /\ IF NeedsQuotes(text)
                      THEN IsQuoted(cells[j], text)
                      ELSE cells[j] = text
                   /\ Unquote(cells[j]) = text

\* Data row i parses into as many fields as there are headers.
FieldPerHeader(i) ==
    LET r == csvResult[1]
        rows == DataRecordsOf(r.csv, csvOpts.lineTerminator)
    IN  Len(FieldsOf(rows[i], csvOpts.delimiter)) = Len(r.headers)

(***************************************************************************)
(* C20, as stated.  A data cell stands in double quotes, its double quotes *)
(* doubled, exactly when its text holds the delimiter, a double quote, a   *)
(* line feed or a carriage return, and stands as it is otherwise;          *)
(* unquoting a cell gives its text back; every data row parses into as     *)
(* many fields as there are headers.  A row of a conversion without        *)
(* headers is an empty line, which parses into one empty field.            *)
(***************************************************************************)
C20_EveryRowParsesIntoHeaderCount ==
    (CsvDone /\ data # <<>>) =>
        /\ Len(DataRecordsOf(csvResult[1].csv, csvOpts.lineTerminator)) = Len(data)
        /\ \A i \in 1..Len(data) :
              /\ CellsQuotedWhenNeeded(i)
              /\ FieldPerHeader(i)

(***************************************************************************)
(* C20, amended.  The cells are quoted as stated and unquoting gives the   *)
(* text back; every data row parses into as many fields as there are       *)
(* headers when there is a header.                                         *)
(***************************************************************************)
C20_QuotedWhenNeededAndParses ==
    (CsvDone /\ data # <<>>) =>
        /\ Len(DataRecordsOf(csvResult[1].csv, csvOpts.lineTerminator)) = Len(data)
        /\ \A i \in 1..Len(data) :
              /\ CellsQuotedWhenNeeded(i)
              /\ csvResult[1].headers # <<>> => FieldPerHeader(i)

\* A row of two cells, one with double quotes and the delimiter in its
\* text, is emitted next to a row with a cell that needs no quotes.
C20_Witness ==
    /\ CsvDone
    /\ Len(data) >= 2
    /\ Len(csvResult[1].headers) >= 2
    /\ \E i \in 1..Len(data) :
          \E j \in 1..Len(csvResult[1].headers) :
              /\ DoubleQuoteCount(CellText(i, j)) >= 2
              /\ includes(CellText(i, j), csvOpts.delimiter)
    /\ \E i \in 1..Len(data) :
          \E j \in 1..Len(csvResult[1].headers) :
              /\ CellText(i, j) # <<>>
              /\ ~NeedsQuotes(CellText(i, j))

\* The caller asked for quoteMode: 'always'.
AlwaysQuote ==
    /\ csvOptions # Null
    /\ "quoteMode" \in csvOptions[1].given
    /\ csvOptions[1].quoteMode = "always"

(***************************************************************************)
(* C21.  The header line is written under the quoting rule of the data     *)
(* cells: with quoteMode 'always' every header stands in double quotes,    *)
(* otherwise a header that holds the delimiter, a double quote or a line   *)
(* break does, its double quotes doubled, and the header line parses into  *)
(* as many fields as there are headers.  The code joins the headers as     *)
(* they are and knows no quoteMode.                                        *)
(***************************************************************************)
C21_HeaderLineQuoted ==
    (CsvDone /\ data # <<>> /\ csvResult[1].headers # <<>>) =>
        LET r == csvResult[1]
            fields == FieldsOf(HeaderRecord(r.csv, csvOpts.lineTerminator),
                               csvOpts.delimiter)
        IN  /\ Len(fields) = Len(r.headers)
            /\ \A j \in 1..Len(r.headers) :
                  IF AlwaysQuote \/ NeedsQuotes(r.headers[j])
                  THEN IsQuoted(fields[j], r.headers[j])
                  ELSE fields[j] = r.headers[j]

\* The serialized text of the value of row i under header j.
SerializedText(i, j) ==
    serializeCellValue(Get(flatData[i], csvResult[1].headers[j]), csvOpts)

\* The text begins with a character that starts a spreadsheet formula.
StartsFormula(text) == text # <<>> /\ text[1] \in {"=", "+", "-", "@"}

ExcelSafeModeSet ==
    /\ csvOptions # Null
    /\ "excelSafeMode" \in csvOptions[1].given
    /\ csvOptions[1].excelSafeMode

(***************************************************************************)
(* C22.  With excelSafeMode a data cell whose serialized text begins with  *)
(* =, +, - or @ is emitted with one single quote in front, put there       *)
(* before the cell is escaped, so that no emitted cell, once unquoted,     *)
(* begins with one of these characters; every other cell, and every cell   *)
(* without excelSafeMode, is its serialized text.                          *)
(***************************************************************************)
C22_FormulaCellsDefused ==
    (CsvDone /\ data # <<>> /\ csvResult[1].headers # <<>>) =>
        LET r == csvResult[1]
            rows == DataRecordsOf(r.csv, csvOpts.lineTerminator)
        IN  \A i \in 1..Len(data) :
                LET cells == FieldsOf(rows[i], csvOpts.delimiter)
                IN  \A j \in 1..Len(r.headers) :
                        LET text == SerializedText(i, j)
                            safe == IF ExcelSafeModeSet /\ StartsFormula(text)
                                    THEN <<"'">> \o text
                                    ELSE text
                        IN  /\ Unquote(cells[j]) = safe
                            /\ NeedsQuotes(safe) => IsQuoted(cells[j], safe)
                            /\ ExcelSafeModeSet => ~StartsFormula(Unquote(cells[j]))

\* With excelSafeMode a cell whose text is a formula with double quotes is
\* emitted in double quotes behind which the single quote stands.
C22_Witness ==
    /\ CsvDone
    /\ ExcelSafeModeSet
    /\ \E i \in 1..Len(data) :
          \E j \in 1..Len(csvResult[1].headers) :
              LET text == SerializedText(i, j)
                  cell == FieldsOf(DataRecordsOf(csvResult[1].csv,
                                                 csvOpts.lineTerminator)[i],
                                   csvOpts.delimiter)[j]
              IN  /\ StartsFormula(text)
                  /\ DoubleQuoteCount(text) >= 2
                  /\ cell[1] = DQ
                  /\ cell[2] = "'"
                  /\ Unquote(cell) = <<"'">> \o text

\* The leaves of an object: every value on a way of keys through plain
\* objects that is not a plain object itself, with the keys of the way
\* joined by dots, in the order of the properties.
RECURSIVE LeavesOf(_, _)
LeavesOf(obj, prefix) ==
    LET RECURSIVE From(_)
        From(i) ==
            IF i > Len(obj.entries) THEN <<>>
            ELSE LET e == obj.entries[i]
                     key == IF prefix = <<>> THEN e.key ELSE prefix \o <<".">> \o e.key
                 IN  (IF e.value.kind = "object"
                      THEN LeavesOf(e.value, key)
                      ELSE <<[key |-> key, value |-> e.value]>>) \o From(i + 1)
    IN  From(1)

(***************************************************************************)
(* C23.  A flattened row holds, for every value of the row that is reached *)
(* through plain objects and is not a plain object (an array, a date, a    *)
(* scalar, null), one entry with the dotted path as key and that value,    *)
(* and nothing else: no value of a flattened row is a plain object.        *)
(***************************************************************************)
C23_FlattenedRowsHoldLeaves ==
    csvPc \in {"rows", "done"} /\ data # <<>> =>
        /\ Len(flatData) = Len(data)
        /\ \A i \in 1..Len(data) :
              LET flat == flatData[i].entries
                  leaves == LeavesOf(data[i], <<>>)
              IN  /\ \A k \in 1..Len(flat) : flat[k].value.kind # "object"
                  /\ \A k \in 1..Len(leaves) :
                        Get(flatData[i], leaves[k].key) = leaves[k].value
                  /\ {flat[k] : k \in 1..Len(flat)}
                        = {leaves[k] : k \in 1..Len(leaves)}
                  /\ Len(flat) = Len(leaves)

\* A row with a nested object is flattened: the value under the nested key
\* stands under the dotted path, next to a row that holds an array and a
\* row that holds null.
C23_Witness ==
    /\ csvPc = "done"
    /\ \E i \in 1..Len(data) :
          \E k \in 1..Len(data[i].entries) :
              LET e == data[i].entries[k]
              IN  /\ e.value.kind = "object"
                  /\ e.value.entries # <<>>
                  /\ e.value.entries[1].value.kind = "string"
                  /\ Get(flatData[i], e.key \o <<".">> \o e.value.entries[1].key)
                        = e.value.entries[1].value
                  /\ Get(flatData[i], e.key) = CsvUndefined
    /\ \E i \in 1..Len(data) :
          \E k \in 1..Len(flatData[i].entries) :
              /\ flatData[i].entries[k].value.kind = "string"
              /\ Cardinality({p \in 1..Len(flatData[i].entries[k].key) :
                                 flatData[i].entries[k].key[p] = "."}) = 2
    /\ \E i \in 1..Len(data) :
          \E k \in 1..Len(flatData[i].entries) :
              flatData[i].entries[k].value.kind \in {"array", "null"}

\* C24: a call without rows (an empty or missing row list) returns the csv
\* '', no header and the row count 0 under every option set, so neither a
\* header line nor a byte order mark nor a line terminator is written, and
\* downloadCSV then hands nothing to the download trigger.
C24_NoRowsNoCsvNoDownload ==
    (dlCall # Null /\ dlCall[1].fn = "downloadCSV" /\ data = <<>>) =>
        /\ csvPc = "done" =>
              /\ csvResult # Null
              /\ csvResult[1].csv = <<>>
              /\ csvResult[1].headers = <<>>
              /\ csvResult[1].rowCount = 0
        /\ dlPc = "done" => csvPc = "done"
        /\ dlPc # "trigger"
        /\ dlFile = Null
        /\ downloads = <<>>

C24_Witness ==
    /\ dlCall # Null
    /\ dlCall[1].fn = "downloadCSV"
    /\ dlCall[1].document = "browser"
    /\ data = <<>>
    /\ csvOptions # Null
    /\ "includeBom" \in csvOptions[1].given
    /\ csvOptions[1].includeBom
    /\ dlPc = "done"
    /\ csvResult = Some([csv |-> <<>>, headers |-> <<>>, rowCount |-> 0])

\* The file name a call asks for, the fallback of its function, and the
\* name without the blanks around it.
AskedFilename ==
    IF dlCall[1].fn = "downloadCSV"
    THEN FilenameOr(dlCall[1].filename, S_export_csv)
    ELSE dlCall[1].filename[1]

FallbackFilename ==
    IF dlCall[1].fn = "downloadCSV" THEN S_export_csv ELSE S_export_txt

IsTrimOf(inner, name) ==
    \/ /\ inner = <<>>
       /\ \A i \in 1..Len(name) : name[i] = " "
    \/ /\ inner # <<>>
       /\ inner[1] # " "
       /\ inner[Len(inner)] # " "
       /\ \E before \in 0..Len(name) :
             /\ before + Len(inner) <= Len(name)
             /\ \A i \in 1..Len(name) :
                   IF i > before /\ i <= before + Len(inner)
                   THEN name[i] = inner[i - before]
                   ELSE name[i] = " "

\* C25: the file name handed to the download trigger is the asked name
\* without the blanks around it and with each of \ / : * ? " < > | replaced
\* by _, or the fallback when nothing is left; it is never empty, holds none
\* of those characters, and normalising it again leaves it as it is.
C25_DownloadedFilenameIsSafe ==
    /\ dlFile # Null =>
          LET name == dlFile[1].filename
          IN  /\ name # <<>>
              /\ \A i \in 1..Len(name) : name[i] \notin IllegalFilenameChars
              /\ \/ /\ IsTrimOf(<<>>, AskedFilename)
                    /\ name = FallbackFilename
                 \/ \E inner \in {SubSeq(AskedFilename, i, j) :
                                    i, j \in 1..Len(AskedFilename)} :
                       /\ inner # <<>>
                       /\ IsTrimOf(inner, AskedFilename)
                       /\ Len(name) = Len(inner)
                       /\ \A i \in 1..Len(name) :
                             name[i] = IF inner[i] \in IllegalFilenameChars
                                       THEN "_" ELSE inner[i]
              /\ normalizeFilename(name, FallbackFilename) = name
    /\ \A i \in 1..Len(downloads) : dlFile # Null /\ downloads[i] = dlFile[1]

C25_Witness ==
    /\ dlPc = "done"
    /\ Len(downloads) = 1
    /\ AskedFilename = <<" ", "/">>
    /\ downloads[1].filename = <<"_">>

\* The toast of an id is in the store; it has run out when its timeout is
\* positive and that many milliseconds have passed since it was added.
ToastPresent(id) == \E i \in 1..Len(toasts) : toasts[i].id = id

ToastRanOut(id) ==
    /\ toastHistory[id].timeout > 0
    /\ now >= toastHistory[id].createdAt + toastHistory[id].timeout

C26_PresentUntilEnded ==
    /\ Len(toastHistory) = toastCount
    /\ \A i, j \in 1..Len(toasts) : i < j => toasts[i].id < toasts[j].id
    /\ \A i \in 1..Len(toasts) : toasts[i].id \in 1..toastCount
    /\ \A id \in 1..toastCount :
          LET h == toastHistory[id]
          IN  /\ ToastPresent(id) =>
                    /\ ~h.removed
                    /\ ~h.cleared
                    /\ h.timeout > 0 => now <= h.createdAt + h.timeout
              /\ ~ToastPresent(id) => h.removed \/ h.cleared \/ ToastRanOut(id)
              /\ (\A t \in timers : t.due > now) =>
                    (ToastPresent(id) <=>
                        ~h.removed /\ ~h.cleared /\ ~ToastRanOut(id))

C26_TimerRemovesItsOwnToast ==
    (timers' # timers /\ timers' \subseteq timers) =>
        /\ \A t \in timers \ timers' : t.due = now /\ now' = now
        /\ toasts' = SelectSeq(toasts,
                               LAMBDA e : \A t \in timers \ timers' : e.id # t.id)

\* C26: a toast is in the store exactly from its addToast until the first of
\* remove(id), clear() and the expiry of its own timeout: with a timeout
\* t > 0 it is there before t ms have passed and gone once they have, with a
\* timeout of 0 (or less) no timer removes it, and a timer that runs removes
\* no toast but its own.
C26_ToastLifetime ==
    []C26_PresentUntilEnded /\ [][C26_TimerRemovesItsOwnToast]_vars

C26_Witness ==
    /\ toastCount = 2
    /\ toastHistory[1].timeout = 2
    /\ toastHistory[1].createdAt = 1
    /\ toastHistory[2].timeout = 0
    /\ toastHistory[2].createdAt = 1
    /\ \A id \in 1..2 : ~toastHistory[id].removed /\ ~toastHistory[id].cleared
    /\ now = 3
    /\ ~ToastPresent(1)
    /\ ToastPresent(2)
    /\ timers = {}

\* The entries of the calls that passed the level filter since the last
\* clear(), the newest first.
RECURSIVE PassedNewestFirst(_)
PassedNewestFirst(n) ==
    IF n = 0 THEN <<>>
    ELSE IF logCalls[n].passed
         THEN <<[level |-> logCalls[n].level, message |-> n]>>
              \o PassedNewestFirst(n - 1)
         ELSE PassedNewestFirst(n - 1)

C27_BoundedNewestFirst ==
    /\ maxLogs >= 1
    /\ Len(logs) <= maxLogs
    /\ \A i, j \in 1..Len(logs) : i < j => logs[i].message > logs[j].message
    /\ LET passed == PassedNewestFirst(Len(logCalls))
       IN  /\ Len(logs) <= Len(passed)
           /\ logs = SubSeq(passed, 1, Len(logs))
    /\ setMaxLogsReturned # Null =>
          LET arg == setMaxLogsReturned[1].arg
          IN  setMaxLogsReturned[1].returned
                  <=> (arg.isInteger /\ arg.floor >= 1)

C27_CallsKeepTheMostRecent ==
    /\ Len(logCalls') = Len(logCalls) + 1 =>
          LET call == logCalls'[Len(logCalls')]
              level == CHOOSE l \in 0..3 : LogLevelNames[l + 1] = call.level
          IN  /\ call.passed <=> level >= logLevel
              /\ call.passed =>
                    /\ Len(logs') = Min(Len(logs) + 1, maxLogs)
                    /\ logs'[1] = [level |-> call.level, message |-> Len(logCalls')]
                    /\ \A i \in 2..Len(logs') : logs'[i] = logs[i - 1]
              /\ ~call.passed => logs' = logs
    /\ (setMaxLogsReturned' # Null /\ setMaxLogsReturned' # setMaxLogsReturned) =>
          IF setMaxLogsReturned'[1].returned
          THEN /\ maxLogs' = setMaxLogsReturned'[1].arg.floor
               /\ logs' = SubSeq(logs, 1, Min(Len(logs), maxLogs'))
          ELSE maxLogs' = maxLogs /\ logs' = logs

\* C27: after any sequence of debug, info, warn, error and setMaxLogs calls
\* the store holds at most maxLogs entries, the newest first, and they are
\* the most recent of the entries that passed the level filter, the oldest
\* being evicted first; setMaxLogs with a number that is no integer or not
\* positive returns false and changes neither maxLogs nor the entries.
C27_LogRetention ==
    []C27_BoundedNewestFirst /\ [][C27_CallsKeepTheMostRecent]_vars

C27_Witness ==
    /\ maxLogs = 2
    /\ Len(logCalls) = 3
    /\ \A i \in 1..3 : logCalls[i].passed
    /\ Len(logs) = 2
    /\ logs[1].message = 3
    /\ logs[2].message = 2
    /\ setMaxLogsReturned = Some([arg |-> IntegerArg(0), returned |-> FALSE])

\* The arrays of a value, the value itself included, and the arrays inside
\* the elements of its arrays, at any depth.
RECURSIVE ArraysOf(_)
ArraysOf(value) ==
    (IF value.kind = "array" THEN {value} ELSE {})
    \cup UNION {ArraysOf(value.elems[i]) : i \in 1..Len(value.elems)}
    \cup UNION {ArraysOf(value.entries[i].value) : i \in 1..Len(value.entries)}

RECURSIVE ArraysInside(_)
ArraysInside(value) ==
    UNION {ArraysOf(value.elems[i]) : i \in 1..Len(value.elems)}
    \cup UNION {ArraysInside(value.entries[i].value) : i \in 1..Len(value.entries)}

\* Every part of the path after root is a key of the payloads: no index.
RECURSIVE KeysOnly(_)
KeysOnly(path) ==
    \/ path = <<>>
    \/ \E k \in Keys :
          /\ Len(path) >= 1 + Len(k)
          /\ path[1] = "."
          /\ SubSeq(path, 2, 1 + Len(k)) = k
          /\ KeysOnly(SubSeq(path, 2 + Len(k), Len(path)))

RootAndKeys(path) ==
    /\ Len(path) >= Len(RootPath)
    /\ SubSeq(path, 1, Len(RootPath)) = RootPath
    /\ KeysOnly(SubSeq(path, Len(RootPath) + 1, Len(path)))

\* C28: the elements of an array are never enqueued: every queue entry is a
\* node that object keys lead to from the root, a candidate is an array at
\* such a node and never an array inside an element of another array, and
\* the path of a candidate is root followed by object keys, without an
\* array index.
C28_ArrayElementsNeverEnqueued ==
    LET N == PayloadNodes
        ViaKeys(c) ==
            /\ RootAndKeys(c.path)
            /\ \A i \in 1..Len(c.path) :
                  c.path[i] \notin {"0", "1", "2", "3", "4", "5", "6", "7", "8", "9"}
            /\ \E i \in SourceIndices(N, c) :
                  c.rows = ObjectRows(N[i].value)
    IN  /\ \A q \in 1..Len(queue) :
              /\ NodeIndices(N, queue[q]) # {}
              /\ RootAndKeys(queue[q].path)
        /\ bestCandidate # Null => ViaKeys(bestCandidate[1])
        /\ (Done /\ result # Null) => ViaKeys(result[1])
        /\ pc # "idle" =>
              /\ inspectedNodeCount <= Len(N)
              /\ candidateCount
                    <= Cardinality({i \in 1..Len(N) : N[i].value.kind = "array"})

\* An array whose element holds a larger array under 'items' is returned
\* with its own path and its one row.
C28_Witness ==
    /\ Done
    /\ payload.kind = "object"
    /\ ArraysInside(payload) # {}
    /\ result # Null
    /\ result[1].path = RoutePath(<<S_items>>)
    /\ Len(result[1].rows) = 1
    /\ \E a \in ArraysInside(payload) :
          /\ Len(ObjectRows(a)) = 2
          /\ \A i \in 1..Len(PayloadNodes) : PayloadNodes[i].value # a

\* The queue holds, in the order of the traversal, the nodes that are
\* dequeued next: its entry q is the node that is dequeued as number
\* inspectedNodeCount + q, so that no node is dequeued twice.
C29_QueueHoldsTheNextNodes ==
    LET N == PayloadNodes
    IN  /\ pc = "loop" =>
              \A q \in 1..Len(queue) :
                  \E i \in NodeIndices(N, queue[q]) :
                      /\ Dequeued(N[i])
                      /\ DequeuePosition(N, i) = inspectedNodeCount + q
        /\ pc # "idle" => inspectedNodeCount <= Len(N)
        /\ Done =>
              \/ payload.kind = "null"
              \/ queue = <<>>
              \/ candidateCount >= opts.maxCandidates

\* C29: findExportableRows terminates for every finite payload: every node
\* that object keys lead to from the root is dequeued at most once, the
\* queue runs empty unless the traversal breaks on maxCandidates, and the
\* inspected nodes never outnumber the nodes that object keys lead to.
C29_TraversalTerminates ==
    []C29_QueueHoldsTheNextNodes /\ <>Done

C29_Witness ==
    /\ Done
    /\ queue = <<>>
    /\ inspectedNodeCount = 3
    /\ Len(PayloadNodes) = 3
    /\ ArraysInside(payload) # {}

\* C30: the candidateCount and inspectedNodeCount of a returned result are
\* the counters as they were when the winning candidate was recorded, not
\* the totals of the call; inspectedNodeCount is at least 1, candidateCount
\* at most inspectedNodeCount, and candidateCount is 0 exactly when rows is
\* empty and the score is 0.
C30_CountersOfTheWinningCandidate ==
    LET N == PayloadNodes
        AtRecording(c) ==
            /\ c.inspectedNodeCount >= 1
            /\ c.inspectedNodeCount <= inspectedNodeCount
            /\ c.candidateCount <= candidateCount
            /\ c.candidateCount <= c.inspectedNodeCount
            /\ c.candidateCount = 0 <=> (c.rows = <<>> /\ c.score = 0)
            /\ \E i \in SourceIndices(N, c) :
                  /\ c.inspectedNodeCount = DequeuePosition(N, i)
                  /\ c.rows # <<>> =>
                        c.candidateCount
                            = QualifyingRank(N, QualifyingIndices(N), i)
    IN  /\ bestCandidate # Null => AtRecording(bestCandidate[1])
        /\ (Done /\ result # Null) => AtRecording(result[1])

\* The winner was recorded before the last array was scored and before the
\* last node was inspected.
C30_Witness ==
    /\ Done
    /\ result # Null
    /\ result[1].candidateCount >= 1
    /\ result[1].candidateCount < candidateCount
    /\ result[1].inspectedNodeCount < inspectedNodeCount

====
